---------------------------- MODULE Spec2Model ----------------------------
(***************************************************************************)
(* Storage quota and reclamation engine of the manuscript processor        *)
(* (backend/utils/storageManager.js and its storage controller).           *)
(*                                                                         *)
(* Representation of numbers.                                              *)
(*  - Sizes are counted in blocks of 16 KiB, so MAX_STORAGE is             *)
(*    512 MiB / 16 KiB = 32768 blocks and every blob length of the model   *)
(*    is a whole number of blocks.                                         *)
(*  - The thresholds of STORAGE_LIMITS are kept in percent (0.95 -> 95);   *)
(*    the source multiplies them by 100 before every comparison, and       *)
(*    0.85*100, 0.90*100, 0.95*100 are exactly 85, 90, 95 in IEEE doubles. *)
(*  - A usage percentage p = totalSize / MAX_STORAGE * 100 is kept exactly *)
(*    as the integer p * MAX_STORAGE = totalSize * 100; a comparison       *)
(*    p >= t is then totalSize * 100 >= t * MAX_STORAGE.                   *)
(*  - usagePercent.toFixed(2) is kept as the integer number of hundredths  *)
(*    of a percent it prints ("94.77" -> 9477).                            *)
(*  - Time is counted in days, from day 1.                                  *)
(***************************************************************************)
EXTENDS Integers, Sequences, FiniteSets, TLC

(***************************************************************************)
(* Bounds of the model                                                     *)
(***************************************************************************)
MaxBlobs == 3         \* blob ids ever issued by the store
MaxRecords == 2       \* File documents ever created
MaxOutputs == 1       \* output files per File document
MaxNow == 32          \* last day the clock reaches (the first day is 1)
TickDays == 31        \* days the clock advances in one step
MaxFaults == 1        \* deletions the stores fail, in all

BlobIds == 1..MaxBlobs
RecIds == 1..MaxRecords
FileSizes == {9830, 16384}          \* lengths of uploaded/converted files (30 %, 50 %)
OutputSizes == {9830}               \* lengths of conversion outputs

(***************************************************************************)
(* STORAGE_LIMITS                                                          *)
(***************************************************************************)
MAX_STORAGE == (512 * 1024 * 1024) \div (16 * 1024)
WARNING_THRESHOLD == 85
CLEANUP_THRESHOLD == 90
CRITICAL_THRESHOLD == 95
TARGET_AFTER_CLEANUP == 70
STALE_DAYS == 30
PHASE2_LIMIT == 100

NULL == 0             \* an absent (falsy) GridFS id or date

\* targetPercent arguments, in percent: the default and two others
TargetPercents == {0, 50, TARGET_AFTER_CLEANUP}

(***************************************************************************)
(* Generic helpers                                                         *)
(***************************************************************************)
RECURSIVE SumBetween(_, _, _, _)
SumBetween(f, S, lo, hi) ==
    IF lo = hi THEN (IF lo \in S THEN f[lo] ELSE 0)
    ELSE LET mid == (lo + hi) \div 2
         IN  SumBetween(f, S, lo, mid) + SumBetween(f, S, mid + 1, hi)

SumOver(f, S) ==
    IF S = {} THEN 0
    ELSE SumBetween(f, S, CHOOSE x \in S : \A y \in S : x <= y,
                          CHOOSE x \in S : \A y \in S : x >= y)

Limit_None(s, n) == s

\* The first n elements of s (all of s when it is shorter): .limit(n)
Limit(s, n) == IF Len(s) <= n THEN s ELSE SubSeq(s, 1, n)

(***************************************************************************)
(* State                                                                   *)
(***************************************************************************)
VARIABLES
    store,      \* GridFS bucket 'outputFiles': blob id -> length
    records,    \* File collection: record id -> document
    now,        \* today's date (day number)
    nextBlob,   \* next blob id the store issues (ids are never reused)
    nextRec,    \* next File id issued
    run,        \* the performAutoCleanup call in progress, if any
    scan,       \* the cleanupOrphanedGridFSFiles call in progress, if any
    faults,     \* number of deletions the stores have failed so far
    last,       \* what the last completed operation returned
    req,        \* the request to /api/storage being served, if any
    inflight,   \* the uploads and deletions in progress: task id -> its state
    client      \* the web client: local storage, auth context, calls in flight

vars == << store, records, now, nextBlob, nextRec, run, scan, faults, last, req,
          inflight, client >>

\* The web client when a page has just been loaded at pathname with token in
\* local storage: no user in the auth context, loading, nothing requested.
ClientAtLoad(token, pathname) ==
    [ token    |-> token,
      user     |-> NULL,
      loading  |-> TRUE,
      pathname |-> pathname,
      mounted  |-> FALSE,
      calls    |-> {},
      leaving  |-> FALSE ]

(***************************************************************************)
(* getStorageStatus(usagePercent): usagePercent is given exactly, as       *)
(* p * MAX_STORAGE.                                                        *)
(***************************************************************************)
getStorageStatus_Strict(usagePercent) ==
    IF usagePercent > CRITICAL_THRESHOLD * MAX_STORAGE THEN "critical"
    ELSE IF usagePercent > CLEANUP_THRESHOLD * MAX_STORAGE THEN "high"
    ELSE IF usagePercent > WARNING_THRESHOLD * MAX_STORAGE THEN "warning"
    ELSE "normal"

getStorageStatus(usagePercent) ==
    IF usagePercent >= CRITICAL_THRESHOLD * MAX_STORAGE THEN "critical"
    ELSE IF usagePercent >= CLEANUP_THRESHOLD * MAX_STORAGE THEN "high"
    ELSE IF usagePercent >= WARNING_THRESHOLD * MAX_STORAGE THEN "warning"
    ELSE "normal"

\* Number.prototype.toFixed(2) of p = x / MAX_STORAGE: the nearest number of
\* hundredths, the larger one on a tie.
ToFixed2(x) == (2 * 100 * x + MAX_STORAGE) \div (2 * MAX_STORAGE)

(***************************************************************************)
(* getStorageStats(): bucket.find({}).toArray(), sum of file.length.       *)
(* st is the bucket: a function from blob id to length.                    *)
(***************************************************************************)
\* The total the File documents account for, whatever the bucket holds.
TotalSize_FromRecords(st) ==
    SumOver([i \in DOMAIN records |->
                records[i].fileSize
                + SumOver([k \in 1..Len(records[i].outputFiles) |->
                              records[i].outputFiles[k].fileSize],
                          1..Len(records[i].outputFiles))],
            DOMAIN records)

TotalSize(st) == SumOver(st, DOMAIN st)

getStorageStats(st) ==
    LET totalSize == TotalSize(st)
        usagePercent == totalSize * 100
    IN  [ totalSize    |-> totalSize,
          usagePercent |-> ToFixed2(usagePercent),
          fileCount    |-> Cardinality(DOMAIN st),
          available    |-> MAX_STORAGE - totalSize,
          status       |-> getStorageStatus(usagePercent) ]

(***************************************************************************)
(* checkStorageAvailability(fileSize).  storeFails: bucket.find rejects,   *)
(* so getStorageStats throws.  The result objects carry exactly the keys   *)
(* the source gives them.                                                  *)
(***************************************************************************)
\* catch (error): "On error, allow upload but log warning"
AdmissionOnError_Deny ==
    [ canUpload |-> FALSE, shouldCleanup |-> FALSE, error |-> "StoreUnavailable" ]

AdmissionOnError ==
    [ canUpload |-> TRUE, shouldCleanup |-> FALSE, error |-> "StoreUnavailable" ]

\* The decision once the stats are known.  usagePercent is
\* parseFloat(stats.usagePercent), in hundredths of a percent.
AdmissionDecision_CapacityFirst(stats, fileSize) ==
    LET usagePercent == stats.usagePercent
        projectedSize == stats.totalSize + fileSize
        projectedPercent == projectedSize * 100
    IN  IF projectedPercent > 100 * MAX_STORAGE
        THEN [ canUpload |-> FALSE, reason |-> "exceeds", stats |-> stats ]
        ELSE IF usagePercent >= CRITICAL_THRESHOLD * 100
        THEN [ canUpload |-> FALSE, reason |-> "critical", stats |-> stats ]
        ELSE IF usagePercent >= CLEANUP_THRESHOLD * 100
        THEN [ canUpload |-> TRUE, shouldCleanup |-> TRUE, reason |-> "high",
               stats |-> stats ]
        ELSE [ canUpload |-> TRUE, shouldCleanup |-> FALSE, stats |-> stats ]

\* The decision without the projected-size test.
AdmissionDecision_NoCapacity(stats, fileSize) ==
    LET usagePercent == stats.usagePercent
    IN  IF usagePercent >= CRITICAL_THRESHOLD * 100
        THEN [ canUpload |-> FALSE, reason |-> "critical", stats |-> stats ]
        ELSE IF usagePercent >= CLEANUP_THRESHOLD * 100
        THEN [ canUpload |-> TRUE, shouldCleanup |-> TRUE, reason |-> "high",
               stats |-> stats ]
        ELSE [ canUpload |-> TRUE, shouldCleanup |-> FALSE, stats |-> stats ]

AdmissionDecision(stats, fileSize) ==
    LET usagePercent == stats.usagePercent
        projectedSize == stats.totalSize + fileSize
        projectedPercent == projectedSize * 100   \* exact, times MAX_STORAGE
    IN  IF usagePercent >= CRITICAL_THRESHOLD * 100
        THEN [ canUpload |-> FALSE, reason |-> "critical", stats |-> stats ]
        ELSE IF projectedPercent > 100 * MAX_STORAGE
        THEN [ canUpload |-> FALSE, reason |-> "exceeds", stats |-> stats ]
        ELSE IF usagePercent >= CLEANUP_THRESHOLD * 100
        THEN [ canUpload |-> TRUE, shouldCleanup |-> TRUE, reason |-> "high",
               stats |-> stats ]
        ELSE [ canUpload |-> TRUE, shouldCleanup |-> FALSE, stats |-> stats ]

\* A check that counts the uploads admitted and not yet stored.
checkStorageAvailability_Reserving(fileSize, st, storeFails) ==
    IF storeFails
    THEN AdmissionOnError
    ELSE AdmissionDecision(getStorageStats(st),
             fileSize + SumOver([u \in DOMAIN inflight |-> inflight[u].fileSize],
                                { u \in DOMAIN inflight : inflight[u].pc = "store" }))

checkStorageAvailability(fileSize, st, storeFails) ==
    IF storeFails
    THEN AdmissionOnError
    ELSE AdmissionDecision(getStorageStats(st), fileSize)

Remove(f, x) == [y \in DOMAIN f \ {x} |-> f[y]]

\* The document File.find returns for record i: its fields as stored now.
Doc(recs, i) == [id |-> i] @@ recs[i]

\* The documents with ids in S in any order at all.
RECURSIVE SortByCreatedAt_Unsorted(_, _)
SortByCreatedAt_Unsorted(recs, S) ==
    IF S = {} THEN { << >> }
    ELSE UNION { { << Doc(recs, i) >> \o t : t \in SortByCreatedAt_Unsorted(recs, S \ {i}) } :
                   i \in S }

\* .sort({ createdAt: 1 }) of the documents with ids in S: every order by
\* ascending createdAt (the order among equal dates is the database's).
\* Documents of one date come in any order; otherwise those of the older
\* half of the date range come before those of the newer half.
RECURSIVE SortByCreatedAt(_, _)
SortByCreatedAt(recs, S) ==
    IF S = {} THEN { << >> }
    ELSE LET dates == { recs[i].createdAt : i \in S }
             lo    == CHOOSE d \in dates : \A e \in dates : d <= e
             hi    == CHOOSE d \in dates : \A e \in dates : d >= e
             older == { i \in S : recs[i].createdAt <= (lo + hi) \div 2 }
         IN  IF lo = hi
             THEN UNION { { << Doc(recs, i) >> \o t : t \in SortByCreatedAt(recs, S \ {i}) } :
                            i \in S }
             ELSE { a \o b : a \in SortByCreatedAt(recs, older),
                             b \in SortByCreatedAt(recs, S \ older) }

(***************************************************************************)
(* deleteFromGridFS(id) of utils/gridfs.js: bucket.delete(id).  It rejects *)
(* when the blob is not in the bucket (NotFound) or when the store fails.  *)
(***************************************************************************)
deleteFromGridFS(id, st, fails) ==
    LET ok == id \in DOMAIN st /\ ~fails
    IN  [ ok |-> ok, store |-> IF ok THEN Remove(st, id) ELSE st ]

(***************************************************************************)
(* getCleanupCandidates(): the ids the $or filter matches, then the sort.  *)
(* A $lt comparison with a date never matches an absent date.             *)
(***************************************************************************)
IsCleanupCandidate(rec, today) ==
    LET thirtyDaysAgo == today - STALE_DAYS
    IN  \/ rec.status = "failed"
        \/ rec.status = "uploaded" /\ rec.createdAt < thirtyDaysAgo
        \/ /\ rec.status = "processing"
           /\ rec.processingStartedAt # NULL
           /\ rec.processingStartedAt < thirtyDaysAgo

getCleanupCandidates_FailedOnly(recs, today) ==
    SortByCreatedAt(recs, {i \in DOMAIN recs : recs[i].status = "failed"})

getCleanupCandidates(recs, today) ==
    SortByCreatedAt(recs, {i \in DOMAIN recs : IsCleanupCandidate(recs[i], today)})

getOldCompleted_One(recs) ==
    { Limit(s, 1) :
        s \in SortByCreatedAt(recs, {i \in DOMAIN recs : recs[i].status = "completed"}) }

\* File.find({ status: 'completed' }).sort({ createdAt: 1 }).limit(100)
getOldCompleted(recs) ==
    { Limit(s, PHASE2_LIMIT) :
        s \in SortByCreatedAt(recs, {i \in DOMAIN recs : recs[i].status = "completed"}) }

(***************************************************************************)
(* deleteFileCompletely(file).  file is the document the caller holds;     *)
(* failBlobs are the blob ids whose deletion the store fails, failDoc      *)
(* tells whether file.deleteOne() rejects.                                 *)
(***************************************************************************)
\* The outputs kept outside GridFS are counted as freed too.
RECURSIVE DeleteOutputs_CountUnstored(_, _, _, _, _)
DeleteOutputs_CountUnstored(outputFiles, k, st, failBlobs, acc) ==
    IF k > Len(outputFiles) THEN [ store |-> st, acc |-> acc ]
    ELSE
    LET outputFile == outputFiles[k]
        counted == [ deletedSize  |-> acc.deletedSize + outputFile.fileSize,
                     deletedFiles |-> Append(acc.deletedFiles,
                                       [type |-> "output", name |-> k]) ]
    IN  IF outputFile.storedInGridFS /\ outputFile.gridfsFileId # NULL
        THEN LET d == deleteFromGridFS(outputFile.gridfsFileId, st,
                                       outputFile.gridfsFileId \in failBlobs)
             IN  IF d.ok
                 THEN DeleteOutputs_CountUnstored(outputFiles, k + 1, d.store, failBlobs,
                                                 counted)
                 ELSE DeleteOutputs_CountUnstored(outputFiles, k + 1, st, failBlobs, acc)
        ELSE DeleteOutputs_CountUnstored(outputFiles, k + 1, st, failBlobs, counted)

RECURSIVE DeleteOutputs(_, _, _, _, _)
DeleteOutputs(outputFiles, k, st, failBlobs, acc) ==
    IF k > Len(outputFiles) THEN [ store |-> st, acc |-> acc ]
    ELSE
    LET outputFile == outputFiles[k]
    IN  IF outputFile.storedInGridFS /\ outputFile.gridfsFileId # NULL
        THEN LET d == deleteFromGridFS(outputFile.gridfsFileId, st,
                                       outputFile.gridfsFileId \in failBlobs)
             IN  IF d.ok
                 THEN DeleteOutputs(outputFiles, k + 1, d.store, failBlobs,
                        [ deletedSize  |-> acc.deletedSize + outputFile.fileSize,
                          deletedFiles |-> Append(acc.deletedFiles,
                                            [type |-> "output", name |-> k]) ])
                 ELSE DeleteOutputs(outputFiles, k + 1, st, failBlobs, acc)
        ELSE DeleteOutputs(outputFiles, k + 1, st, failBlobs, acc)

DeleteInput_Skip(file, st, failBlobs) ==
    [ store |-> st,
      acc |-> [ deletedSize  |-> file.fileSize,
                deletedFiles |-> << [type |-> "input", name |-> 0] >> ] ]

\* deletedSize is increased before the deletion is known to have succeeded.
DeleteInput_CountFailed(file, st, failBlobs) ==
    IF file.gridfsInputFileId # NULL
    THEN LET d == deleteFromGridFS(file.gridfsInputFileId, st,
                                   file.gridfsInputFileId \in failBlobs)
         IN  [ store |-> d.store,
               acc |-> [ deletedSize  |-> file.fileSize,
                         deletedFiles |-> << [type |-> "input", name |-> 0] >> ] ]
    ELSE [ store |-> st, acc |-> [ deletedSize |-> 0, deletedFiles |-> << >> ] ]

DeleteInput(file, st, failBlobs) ==
    LET none == [ deletedSize |-> 0, deletedFiles |-> << >> ]
    IN  IF file.gridfsInputFileId # NULL
        THEN LET d == deleteFromGridFS(file.gridfsInputFileId, st,
                                       file.gridfsInputFileId \in failBlobs)
             IN  IF d.ok
                 THEN [ store |-> d.store,
                        acc |-> [ deletedSize  |-> file.fileSize,
                                  deletedFiles |-> << [type |-> "input", name |-> 0] >> ] ]
                 ELSE [ store |-> st, acc |-> none ]
        ELSE [ store |-> st, acc |-> none ]

\* Without the two inner try/catch blocks: the first blob deletion that
\* rejects makes the whole call throw.
deleteFileCompletely_Strict(file, st, recs, failBlobs, failDoc) ==
    LET in  == DeleteInput(file, st, failBlobs)
        out == DeleteOutputs(file.outputFiles, 1, in.store, failBlobs, in.acc)
        attempted ==
            (IF file.gridfsInputFileId # NULL THEN {file.gridfsInputFileId} ELSE {})
            \cup { file.outputFiles[k].gridfsFileId : k \in
                     { j \in 1..Len(file.outputFiles) :
                         /\ file.outputFiles[j].storedInGridFS
                         /\ file.outputFiles[j].gridfsFileId # NULL } }
    IN  IF failDoc \/ ~(attempted \subseteq DOMAIN st) \/ attempted \cap failBlobs # {}
        THEN [ threw |-> TRUE, store |-> out.store, records |-> recs ]
        ELSE [ threw   |-> FALSE,
               store   |-> out.store,
               records |-> Remove(recs, file.id),
               result  |-> [ fileId       |-> file.id,
                             deletedSize  |-> out.acc.deletedSize,
                             deletedFiles |-> out.acc.deletedFiles,
                             createdAt    |-> file.createdAt ] ]

\* The document is kept and marked instead of being deleted.
deleteFileCompletely_SoftDelete(file, st, recs, failBlobs, failDoc) ==
    LET in  == DeleteInput(file, st, failBlobs)
        out == DeleteOutputs(file.outputFiles, 1, in.store, failBlobs, in.acc)
    IN  IF failDoc
        THEN [ threw |-> TRUE, store |-> out.store, records |-> recs ]
        ELSE [ threw   |-> FALSE,
               store   |-> out.store,
               records |-> [recs EXCEPT ![file.id].status = "failed"],
               result  |-> [ fileId       |-> file.id,
                             deletedSize  |-> out.acc.deletedSize,
                             deletedFiles |-> out.acc.deletedFiles,
                             createdAt    |-> file.createdAt ] ]

deleteFileCompletely(file, st, recs, failBlobs, failDoc) ==
    LET in  == DeleteInput(file, st, failBlobs)
        out == DeleteOutputs(file.outputFiles, 1, in.store, failBlobs, in.acc)
    IN  IF failDoc
        THEN [ threw |-> TRUE, store |-> out.store, records |-> recs ]
        ELSE [ threw   |-> FALSE,
               store   |-> out.store,
               records |-> Remove(recs, file.id),
               result  |-> [ fileId       |-> file.id,
                             deletedSize  |-> out.acc.deletedSize,
                             deletedFiles |-> out.acc.deletedFiles,
                             createdAt    |-> file.createdAt ] ]

\* The blob ids deleteFileCompletely asks the store to delete for file.
AttemptedBlobs(file) ==
    (IF file.gridfsInputFileId # NULL THEN {file.gridfsInputFileId} ELSE {})
    \cup { file.outputFiles[k].gridfsFileId : k \in
             { j \in 1..Len(file.outputFiles) :
                 /\ file.outputFiles[j].storedInGridFS
                 /\ file.outputFiles[j].gridfsFileId # NULL } }

\* Every blob id a document refers to (input and every output entry).
ReferencedBlobs(file) ==
    (IF file.gridfsInputFileId # NULL THEN {file.gridfsInputFileId} ELSE {})
    \cup { file.outputFiles[k].gridfsFileId : k \in
             { j \in 1..Len(file.outputFiles) : file.outputFiles[j].gridfsFileId # NULL } }

(***************************************************************************)
(* Initial state: an empty bucket and an empty File collection.            *)
(***************************************************************************)
Init ==
    /\ store = << >>
    /\ records = << >>
    /\ now = 1
    /\ nextBlob = 1
    /\ nextRec = 1
    /\ run = [pc |-> "idle"]
    /\ scan = [pc |-> "idle"]
    /\ faults = 0
    /\ last = [op |-> "none"]
    /\ req = [pc |-> "idle"]
    /\ inflight = << >>
    /\ client = ClientAtLoad(NULL, "/login")

Idle == run.pc = "idle" /\ scan.pc = "idle" /\ req.pc = "idle"

(***************************************************************************)
(* Upload of a manuscript (upload controller): admission check, then the   *)
(* input blob is stored, then the File document is created with status     *)
(* uploaded.  createFails: the document could not be created after the     *)
(* blob was stored.                                                        *)
(***************************************************************************)
Upload(fileSize, storeFails, createFails) ==
    /\ nextBlob <= MaxBlobs
    /\ nextRec <= MaxRecords
    /\ LET adm == checkStorageAvailability(fileSize, store, storeFails)
       IN  IF ~adm.canUpload
           THEN /\ last' = [op |-> "upload", admission |-> adm, stored |-> FALSE]
                /\ UNCHANGED << store, records, nextBlob, nextRec >>
           ELSE /\ store' = store @@ (nextBlob :> fileSize)
                /\ nextBlob' = nextBlob + 1
                /\ IF createFails
                   THEN UNCHANGED << records, nextRec >>
                   ELSE /\ records' = records @@ (nextRec :>
                               [ status              |-> "uploaded",
                                 createdAt           |-> now,
                                 processingStartedAt |-> NULL,
                                 fileSize            |-> fileSize,
                                 gridfsInputFileId   |-> nextBlob,
                                 outputFiles         |-> << >> ])
                        /\ nextRec' = nextRec + 1
                /\ last' = [op |-> "upload", admission |-> adm, stored |-> TRUE]
    /\ UNCHANGED << now, run, scan, faults, req, inflight, client >>

(***************************************************************************)
(* Conversion worker: uploaded -> processing -> completed | failed.        *)
(* A completed conversion adds an output file, kept in GridFS              *)
(* (storedInGridFS with its blob id) or outside it (no blob id).           *)
(***************************************************************************)
WorkerStart(i) ==
    /\ i \in DOMAIN records
    /\ records[i].status = "uploaded"
    /\ records' = [records EXCEPT ![i].status = "processing",
                                  ![i].processingStartedAt = now]
    /\ last' = [op |-> "worker"]
    /\ UNCHANGED << store, now, nextBlob, nextRec, run, scan, faults, req, inflight, client >>

WorkerFail(i) ==
    /\ i \in DOMAIN records
    /\ records[i].status = "processing"
    /\ records' = [records EXCEPT ![i].status = "failed"]
    /\ last' = [op |-> "worker"]
    /\ UNCHANGED << store, now, nextBlob, nextRec, run, scan, faults, req, inflight, client >>

WorkerComplete(i, fileSize, inGridFS) ==
    /\ i \in DOMAIN records
    /\ records[i].status = "processing"
    /\ Len(records[i].outputFiles) < MaxOutputs
    /\ IF inGridFS
       THEN /\ nextBlob <= MaxBlobs
            /\ store' = store @@ (nextBlob :> fileSize)
            /\ nextBlob' = nextBlob + 1
            /\ records' = [records EXCEPT
                  ![i].status = "completed",
                  ![i].outputFiles = Append(@, [ fileSize       |-> fileSize,
                                                 gridfsFileId   |-> nextBlob,
                                                 storedInGridFS |-> TRUE ])]
       ELSE /\ records' = [records EXCEPT
                  ![i].status = "completed",
                  ![i].outputFiles = Append(@, [ fileSize       |-> fileSize,
                                                 gridfsFileId   |-> NULL,
                                                 storedInGridFS |-> FALSE ])]
            /\ UNCHANGED << store, nextBlob >>
    /\ last' = [op |-> "worker"]
    /\ UNCHANGED << now, nextRec, run, scan, faults, req, inflight, client >>

\* A call of getStorageStats(); it throws when the bucket cannot be listed.
GetStats(storeFails) ==
    /\ last' = IF storeFails
               THEN [op |-> "getStorageStats", threw |-> TRUE]
               ELSE [op |-> "getStorageStats", threw |-> FALSE,
                     result |-> getStorageStats(store)]
    /\ UNCHANGED << store, records, now, nextBlob, nextRec, run, scan, faults, req, inflight, client >>

\* A call of checkStorageAvailability(fileSize).
CheckAdmission(fileSize, storeFails) ==
    /\ last' = [ op |-> "checkStorageAvailability", fileSize |-> fileSize,
                 storeFails |-> storeFails,
                 result |-> checkStorageAvailability(fileSize, store, storeFails) ]
    /\ UNCHANGED << store, records, now, nextBlob, nextRec, run, scan, faults, req, inflight, client >>

\* Time passes.
Tick ==
    /\ now + TickDays <= MaxNow
    /\ now' = now + TickDays
    /\ last' = [op |-> "tick"]
    /\ UNCHANGED << store, records, nextBlob, nextRec, run, scan, faults, req, inflight, client >>

(***************************************************************************)
(* performAutoCleanup(targetPercent), one step per database round.         *)
(* run.sizeToFree is kept times 100 (targetPercent is in percent).         *)
(* History kept with the run: candidates (the Phase-1 list), oldFiles (the *)
(* Phase-2 list, once queried), attempts (the calls of                     *)
(* deleteFileCompletely made, with the blob deletions that failed and the  *)
(* freedSize before the call), before (both stores when the run began) and *)
(* prev (the operation that completed just before).                        *)
(***************************************************************************)
SizeToFree(totalSize, targetPercent) == totalSize * 100 - MAX_STORAGE * targetPercent

TargetMet_Strict(r) == r.freedSize * 100 > r.sizeToFree

TargetMet(r) == r.freedSize * 100 >= r.sizeToFree

\* for (const file of list) { if (freedSize >= sizeToFree) break; ... }
LoopDone_SkipLast(r) == r.idx > Len(r.list) - 1 \/ TargetMet(r)

\* Without the try/catch of the loop body: a call that throws ends the loop.
LoopDone_AfterThrow(r) ==
    \/ r.idx > Len(r.list)
    \/ r.freedSize * 100 >= r.sizeToFree
    \/ r.attempts # << >> /\ r.attempts[Len(r.attempts)].threw

LoopDone(r) == r.idx > Len(r.list) \/ TargetMet(r)

\* History: what the operation completed just before this run was.  failed:
\* a call of deleteFileCompletely threw; batchFull: the Phase-2 query
\* returned as many documents as its limit allows.
PrevRun(l) ==
    IF l.op = "performAutoCleanup" /\ ~l.threw
    THEN [ op            |-> "run",
           targetPercent |-> l.targetPercent,
           deleted       |-> l.result.deletedFiles # << >>,
           failed        |-> l.failed,
           batchFull     |-> l.batchFull ]
    ELSE [op |-> "other"]

CleanupStart(targetPercent, storeFails) ==
    /\ run.pc = "idle"
    /\ IF storeFails
       THEN /\ last' = [op |-> "performAutoCleanup", threw |-> TRUE]
            /\ UNCHANGED run
       ELSE LET initialStats == getStorageStats(store)
                sizeToFree == SizeToFree(initialStats.totalSize, targetPercent)
            IN  IF sizeToFree <= 0
                THEN /\ last' = [ op |-> "performAutoCleanup", threw |-> FALSE,
                                  targetPercent |-> targetPercent,
                                  prev |-> PrevRun(last),
                                  before |-> [store |-> store, records |-> records],
                                  failed |-> FALSE,
                                  batchFull |-> FALSE,
                                  result |-> [ success      |-> TRUE,
                                               message      |-> "already below target",
                                               initialStats |-> initialStats,
                                               finalStats   |-> initialStats,
                                               deletedFiles |-> << >> ] ]
                     /\ UNCHANGED run
                ELSE /\ \E cleanupCandidates \in getCleanupCandidates(records, now) :
                          run' = [ pc            |-> "phase1",
                                   targetPercent |-> targetPercent,
                                   initialStats  |-> initialStats,
                                   sizeToFree    |-> sizeToFree,
                                   freedSize     |-> 0,
                                   deletedFiles  |-> << >>,
                                   list          |-> cleanupCandidates,
                                   idx           |-> 1,
                                   candidates    |-> cleanupCandidates,
                                   attempts      |-> << >>,
                                   queried       |-> FALSE,
                                   oldFiles      |-> << >>,
                                   prev          |-> PrevRun(last),
                                   before        |-> [ store   |-> store,
                                                       records |-> records ] ]
                     /\ last' = [op |-> "pending"]
    /\ UNCHANGED << store, records, now, nextBlob, nextRec, scan, faults, req, inflight, client >>

\* One iteration of either for loop: try { deleteFileCompletely } catch { log }.
CleanupDelete(phase, failBlobs, failDoc) ==
    /\ run.pc = phase
    /\ ~LoopDone(run)
    /\ LET file == run.list[run.idx]
           d == deleteFileCompletely(file, store, records, failBlobs, failDoc)
           injected == Cardinality(failBlobs) + (IF failDoc THEN 1 ELSE 0)
       IN  /\ failBlobs \subseteq (AttemptedBlobs(file) \cap DOMAIN store)
           /\ faults + injected <= MaxFaults
           /\ faults' = faults + injected
           /\ store' = d.store
           /\ records' = d.records
           /\ run' = IF d.threw
                     THEN [run EXCEPT !.idx = @ + 1,
                                      !.attempts = Append(@, [ fileId    |-> file.id,
                                                               phase     |-> phase,
                                                               failBlobs |-> failBlobs,
                                                               freedSize |-> run.freedSize,
                                                               threw     |-> TRUE ])]
                     ELSE [run EXCEPT !.idx = @ + 1,
                                      !.freedSize = @ + d.result.deletedSize,
                                      !.deletedFiles = Append(@, d.result),
                                      !.attempts = Append(@, [ fileId    |-> file.id,
                                                               phase     |-> phase,
                                                               failBlobs |-> failBlobs,
                                                               freedSize |-> run.freedSize,
                                                               threw     |-> FALSE ])]
    /\ last' = [op |-> "pending"]
    /\ UNCHANGED << now, nextBlob, nextRec, scan, req, inflight, client >>

\* After the first loop: if (freedSize < sizeToFree) query the completed files.
CleanupPhase1Done ==
    /\ run.pc = "phase1"
    /\ LoopDone(run)
    /\ IF ~TargetMet(run)
       THEN \E oldFiles \in getOldCompleted(records) :
               run' = [run EXCEPT !.pc = "phase2", !.list = oldFiles, !.idx = 1,
                                  !.queried = TRUE, !.oldFiles = oldFiles]
       ELSE run' = [run EXCEPT !.pc = "final"]
    /\ last' = [op |-> "pending"]
    /\ UNCHANGED << store, records, now, nextBlob, nextRec, scan, faults, req, inflight, client >>

CleanupPhase2Done ==
    /\ run.pc = "phase2"
    /\ LoopDone(run)
    /\ run' = [run EXCEPT !.pc = "final"]
    /\ last' = [op |-> "pending"]
    /\ UNCHANGED << store, records, now, nextBlob, nextRec, scan, faults, req, inflight, client >>

\* finalStats = await getStorageStats(); return { ... }
CleanupReturn(storeFails) ==
    /\ run.pc = "final"
    /\ run' = [pc |-> "idle"]
    /\ last' = IF storeFails
               THEN [op |-> "performAutoCleanup", threw |-> TRUE]
               ELSE [ op |-> "performAutoCleanup", threw |-> FALSE,
                      targetPercent |-> run.targetPercent,
                      attempts |-> run.attempts,
                      queried |-> run.queried,
                      prev |-> run.prev,
                      before |-> run.before,
                      failed |-> \E k \in 1..Len(run.attempts) : run.attempts[k].threw,
                      batchFull |-> Len(run.oldFiles) >= PHASE2_LIMIT,
                      result |-> [ success      |-> TRUE,
                                   message      |-> "completed",
                                   initialStats |-> run.initialStats,
                                   finalStats   |-> getStorageStats(store),
                                   deletedFiles |-> run.deletedFiles,
                                   freedSize    |-> run.freedSize ] ]
    /\ UNCHANGED << store, records, now, nextBlob, nextRec, scan, faults, req, inflight, client >>

(***************************************************************************)
(* cleanupOrphanedGridFSFiles(), one step per database round.              *)
(* scan.before, scan.seen, scan.prev and scan.failed are history: the      *)
(* bucket as listed, the File documents as read, the last result when the  *)
(* scan began, and the deletions that failed.                              *)
(***************************************************************************)
RECURSIVE SeqOfSet(_)
SeqOfSet(S) ==
    IF S = {} THEN << >>
    ELSE LET x == CHOOSE y \in S : \A z \in S : y <= z
         IN  << x >> \o SeqOfSet(S \ {x})

ReferencedIds_InputsOnly(recs) ==
    { recs[i].gridfsInputFileId : i \in DOMAIN recs } \ {NULL}

ReferencedIds_None(recs) == {}

\* referencedIds: every gridfsInputFileId and every output gridfsFileId
ReferencedIds(recs) == UNION { ReferencedBlobs(recs[i]) : i \in DOMAIN recs }

OrphanedFiles_FirstOnly(gridfsFiles, recs) ==
    LET ids == Limit(SeqOfSet(DOMAIN gridfsFiles \ ReferencedIds(recs)), 1)
    IN  [k \in 1..Len(ids) |-> [id |-> ids[k], length |-> gridfsFiles[ids[k]]]]

\* gridfsFiles.filter(gFile => !referencedIds.has(gFile._id.toString()))
OrphanedFiles(gridfsFiles, recs) ==
    LET ids == SeqOfSet(DOMAIN gridfsFiles \ ReferencedIds(recs))
    IN  [k \in 1..Len(ids) |-> [id |-> ids[k], length |-> gridfsFiles[ids[k]]]]

\* for (const orphan of orphanedFiles)
ScanLoopDone(sc) == sc.idx > Len(sc.orphanedFiles)

\* History: what the operation completed just before this scan was.
PrevScan(l) ==
    IF l.op = "cleanupOrphaned" /\ ~l.threw
    THEN [op |-> "scan", failed |-> l.failed, deletedCount |-> l.result.deletedCount]
    ELSE [op |-> "other"]

ScanStart(storeFails) ==
    /\ scan.pc = "idle"
    /\ IF storeFails
       THEN /\ last' = [op |-> "cleanupOrphaned", threw |-> TRUE]
            /\ UNCHANGED scan
       ELSE /\ scan' = [pc |-> "records", gridfsFiles |-> store, prev |-> PrevScan(last)]
            /\ last' = [op |-> "pending"]
    /\ UNCHANGED << store, records, now, nextBlob, nextRec, run, faults, req, inflight, client >>

\* The record read with the bucket listed again at that moment.
ScanRecords_Relist(findFails) ==
    /\ scan.pc = "records"
    /\ IF findFails
       THEN /\ last' = [op |-> "cleanupOrphaned", threw |-> TRUE]
            /\ scan' = [pc |-> "idle"]
       ELSE /\ scan' = [ pc            |-> "delete",
                         orphanedFiles |-> OrphanedFiles(store, records),
                         idx           |-> 1,
                         deletedCount  |-> 0,
                         freedSize     |-> 0,
                         failed        |-> 0,
                         before        |-> store,
                         seen          |-> records,
                         prev          |-> scan.prev ]
            /\ last' = [op |-> "pending"]
    /\ UNCHANGED << store, records, now, nextBlob, nextRec, run, faults, req, inflight, client >>

ScanRecords(findFails) ==
    /\ scan.pc = "records"
    /\ IF findFails
       THEN /\ last' = [op |-> "cleanupOrphaned", threw |-> TRUE]
            /\ scan' = [pc |-> "idle"]
       ELSE /\ scan' = [ pc            |-> "delete",
                         orphanedFiles |-> OrphanedFiles(scan.gridfsFiles, records),
                         idx           |-> 1,
                         deletedCount  |-> 0,
                         freedSize     |-> 0,
                         failed        |-> 0,
                         before        |-> scan.gridfsFiles,
                         seen          |-> records,
                         prev          |-> scan.prev ]
            /\ last' = [op |-> "pending"]
    /\ UNCHANGED << store, records, now, nextBlob, nextRec, run, faults, req, inflight, client >>

ScanDelete(fails) ==
    /\ scan.pc = "delete"
    /\ ~ScanLoopDone(scan)
    /\ LET orphan == scan.orphanedFiles[scan.idx]
           d == deleteFromGridFS(orphan.id, store, fails)
       IN  /\ fails => faults < MaxFaults
           /\ faults' = IF fails THEN faults + 1 ELSE faults
           /\ store' = d.store
           /\ scan' = IF d.ok
                      THEN [scan EXCEPT !.idx = @ + 1,
                                        !.deletedCount = @ + 1,
                                        !.freedSize = @ + orphan.length]
                      ELSE [scan EXCEPT !.idx = @ + 1, !.failed = @ + 1]
    /\ last' = [op |-> "pending"]
    /\ UNCHANGED << records, now, nextBlob, nextRec, run, req, inflight, client >>

ScanReturn ==
    /\ scan.pc = "delete"
    /\ ScanLoopDone(scan)
    /\ scan' = [pc |-> "idle"]
    /\ last' = [ op |-> "cleanupOrphaned", threw |-> FALSE,
                 before |-> scan.before, failed |-> scan.failed, prev |-> scan.prev,
                 result |-> [ success      |-> TRUE,
                              deletedCount |-> scan.deletedCount,
                              freedSize    |-> scan.freedSize ] ]
    /\ UNCHANGED << store, records, now, nextBlob, nextRec, run, faults, req, inflight, client >>

(***************************************************************************)
(* Requests run one at a time: a request starts when no cleanup and no     *)
(* orphan scan is in progress.                                             *)
(***************************************************************************)
Next ==
    \/ \E fileSize \in FileSizes, storeFails, createFails \in BOOLEAN :
          Idle /\ Upload(fileSize, storeFails, createFails)
    \/ \E i \in RecIds : Idle /\ WorkerStart(i)
    \/ \E i \in RecIds : Idle /\ WorkerFail(i)
    \/ \E i \in RecIds, fileSize \in OutputSizes, inGridFS \in BOOLEAN :
          Idle /\ WorkerComplete(i, fileSize, inGridFS)
    \/ Idle /\ Tick
    \/ \E storeFails \in BOOLEAN : Idle /\ GetStats(storeFails)
    \/ \E targetPercent \in TargetPercents, storeFails \in BOOLEAN :
          Idle /\ CleanupStart(targetPercent, storeFails)
    \/ \E phase \in {"phase1", "phase2"}, failBlobs \in SUBSET BlobIds, failDoc \in BOOLEAN :
          CleanupDelete(phase, failBlobs, failDoc)
    \/ CleanupPhase1Done
    \/ CleanupPhase2Done
    \/ \E storeFails \in BOOLEAN : CleanupReturn(storeFails)
    \/ \E storeFails \in BOOLEAN : Idle /\ ScanStart(storeFails)
    \/ \E findFails \in BOOLEAN : ScanRecords(findFails)
    \/ \E fails \in BOOLEAN : ScanDelete(fails)
    \/ ScanReturn

Spec == Init /\ [][Next]_vars

(***************************************************************************)
(* The administration surface /api/storage (routes/storage.js and          *)
(* controllers/storageController.js).  A request passes the router's       *)
(* middleware in order and then reaches the handler of its route; the      *)
(* handler's response is left in last.                                     *)
(***************************************************************************)
MaxIds == 2           \* longest fileIds array of a bulk delete request

Routes == { "stats", "report", "cleanup-candidates", "oldest-files",
            "cleanup", "cleanup-orphaned", "files" }

\* Who sends the request: no valid token, a signed-in user, an administrator.
Callers == { "none", "user", "admin" }

\* An id of the right form that names no File document.
UnknownId == MaxRecords + 1

FileIdLists == UNION { [1..n -> RecIds \cup {UnknownId}] : n \in 0..MaxIds }

\* The request bodies sent to a route.
Bodies(route) ==
    IF route = "cleanup"
    THEN { [none |-> TRUE] } \cup { [targetPercent |-> t] : t \in {0} }
    ELSE IF route = "files"
    THEN { [none |-> TRUE] } \cup { [fileIds |-> ids] : ids \in FileIdLists }
    ELSE { [none |-> TRUE] }

OLDEST_DEFAULT_LIMIT == 50

Middleware_AuthenticateOnly == << "authenticate" >>

\* router.use(authenticate); router.use(authorizeAdmin);
Middleware == << "authenticate", "authorizeAdmin" >>

\* middleware/auth.js: authenticate lets a request with a valid token
\* through, authorizeAdmin one whose user has the admin role.
MiddlewarePasses(name, caller) ==
    IF name = "authenticate" THEN caller # "none" ELSE caller = "admin"

Response(status, body) ==
    [ op |-> "response", route |-> req.route, caller |-> req.caller,
      status |-> status, body |-> body ]

Receive(route, caller, body) ==
    /\ Idle
    /\ req' = [ pc |-> "middleware", route |-> route, caller |-> caller,
                body |-> body, stage |-> 1, passed |-> << >> ]
    /\ last' = [op |-> "request"]
    /\ UNCHANGED << store, records, now, nextBlob, nextRec, run, scan, faults, inflight, client >>

\* The next middleware of the chain runs: it calls next() or answers.
RunMiddleware(name, refusal) ==
    /\ req.pc = "middleware"
    /\ req.stage <= Len(Middleware)
    /\ Middleware[req.stage] = name
    /\ IF MiddlewarePasses(name, req.caller)
       THEN /\ req' = [req EXCEPT !.stage = @ + 1, !.passed = Append(@, name)]
            /\ last' = [op |-> "next"]
       ELSE /\ req' = [pc |-> "idle"]
            /\ last' = Response(refusal, [success |-> FALSE])
    /\ UNCHANGED << store, records, now, nextBlob, nextRec, run, scan, faults, inflight, client >>

Authenticate == RunMiddleware("authenticate", 401)

AuthorizeAdmin == RunMiddleware("authorizeAdmin", 403)

\* The request has passed the whole chain and is with the handler of route.
Routed(route) ==
    /\ req.pc = "middleware"
    /\ req.stage > Len(Middleware)
    /\ req.route = route

\* getStats: what it answers.
getStats_Default(storeFails, st) ==
    [ status |-> 200,
      body |-> [ success |-> TRUE,
                 data |-> [ stats |-> getStorageStats(IF storeFails THEN << >> ELSE st) ] ] ]

getStats(storeFails, st) ==
    IF storeFails
    THEN [ status |-> 500, body |-> [ success |-> FALSE, error |-> "StoreUnavailable" ] ]
    ELSE [ status |-> 200,
           body |-> [ success |-> TRUE, data |-> [ stats |-> getStorageStats(st) ] ] ]

\* The handler empties the bucket while answering.
HandleGetStats_Purging(storeFails) ==
    /\ Routed("stats")
    /\ LET r == getStats(storeFails, store)
       IN  last' = Response(r.status, r.body) @@ [storeFails |-> storeFails]
    /\ req' = [pc |-> "idle"]
    /\ store' = << >>
    /\ UNCHANGED << records, now, nextBlob, nextRec, run, scan, faults, inflight, client >>

HandleGetStats(storeFails) ==
    /\ Routed("stats")
    /\ LET r == getStats(storeFails, store)
       IN  last' = Response(r.status, r.body) @@ [storeFails |-> storeFails]
    /\ req' = [pc |-> "idle"]
    /\ UNCHANGED << store, records, now, nextBlob, nextRec, run, scan, faults, inflight, client >>

\* The size the list handlers show for a document.
DocTotalSize(file) ==
    file.fileSize
    + SumOver([k \in 1..Len(file.outputFiles) |-> file.outputFiles[k].fileSize],
              1..Len(file.outputFiles))

\* $group by status: count and sum of fileSize
StatusCounts(recs) ==
    [ st \in { recs[i].status : i \in DOMAIN recs } |->
        LET S == { i \in DOMAIN recs : recs[i].status = st }
        IN  [ count |-> Cardinality(S),
              totalSize |-> SumOver([i \in S |-> recs[i].fileSize], S) ] ]

\* getStorageReport: getStorageStats, getCleanupCandidates, the aggregations.
getStorageReport(storeFails, findFails) ==
    IF storeFails \/ findFails
    THEN [ status |-> 500, body |-> [ success |-> FALSE, error |-> "StoreUnavailable" ] ]
    ELSE [ status |-> 200,
           body |-> [ success |-> TRUE,
                      data |-> [ stats |-> getStorageStats(store),
                                 cleanupCandidatesCount |->
                                    Cardinality({ i \in DOMAIN records :
                                                    IsCleanupCandidate(records[i], now) }),
                                 statusCounts |-> StatusCounts(records) ] ] ]

HandleGetStorageReport(storeFails, findFails) ==
    /\ Routed("report")
    /\ LET r == getStorageReport(storeFails, findFails)
       IN  last' = Response(r.status, r.body) @@ [storeFails |-> storeFails]
    /\ req' = [pc |-> "idle"]
    /\ UNCHANGED << store, records, now, nextBlob, nextRec, run, scan, faults, inflight, client >>

\* A list handler's answer for the documents files.
ListResponse(files) ==
    [ success |-> TRUE,
      count |-> Len(files),
      data |-> [k \in 1..Len(files) |->
                  [ id |-> files[k].id, status |-> files[k].status,
                    totalSize |-> DocTotalSize(files[k]) ]] ]

HandleGetCleanupCandidatesList(findFails) ==
    /\ Routed("cleanup-candidates")
    /\ IF findFails
       THEN last' = Response(500, [success |-> FALSE, error |-> "StoreUnavailable"])
       ELSE \E candidates \in getCleanupCandidates(records, now) :
               last' = Response(200, ListResponse(candidates))
    /\ req' = [pc |-> "idle"]
    /\ UNCHANGED << store, records, now, nextBlob, nextRec, run, scan, faults, inflight, client >>

\* getOldestFiles(limit): File.find().sort({ createdAt: 1 }).limit(limit)
getOldestFiles(recs, limit) ==
    { Limit(s, limit) : s \in SortByCreatedAt(recs, DOMAIN recs) }

HandleGetOldestFilesList(findFails) ==
    /\ Routed("oldest-files")
    /\ IF findFails
       THEN last' = Response(500, [success |-> FALSE, error |-> "StoreUnavailable"])
       ELSE \E files \in getOldestFiles(records, OLDEST_DEFAULT_LIMIT) :
               last' = Response(200, ListResponse(files))
    /\ req' = [pc |-> "idle"]
    /\ UNCHANGED << store, records, now, nextBlob, nextRec, run, scan, faults, inflight, client >>

\* cleanup: performAutoCleanup(req.body.targetPercent); the default of an
\* absent targetPercent is TARGET_AFTER_CLEANUP.
HandleCleanup(storeFails) ==
    /\ Routed("cleanup")
    /\ last.op = "next"
    /\ CleanupStart(IF "targetPercent" \in DOMAIN req.body
                    THEN req.body.targetPercent
                    ELSE TARGET_AFTER_CLEANUP, storeFails)

CleanupRespond ==
    /\ Routed("cleanup")
    /\ run.pc = "idle"
    /\ last.op = "performAutoCleanup"
    /\ last' = IF last.threw
               THEN Response(500, [success |-> FALSE, error |-> "StoreUnavailable"])
               ELSE Response(200, [ success |-> TRUE, message |-> last.result.message,
                                    data |-> last.result ])
    /\ req' = [pc |-> "idle"]
    /\ UNCHANGED << store, records, now, nextBlob, nextRec, run, scan, faults, inflight, client >>

\* cleanupOrphaned: cleanupOrphanedGridFSFiles()
HandleCleanupOrphaned(storeFails) ==
    /\ Routed("cleanup-orphaned")
    /\ last.op = "next"
    /\ ScanStart(storeFails)

CleanupOrphanedRespond ==
    /\ Routed("cleanup-orphaned")
    /\ scan.pc = "idle"
    /\ last.op = "cleanupOrphaned"
    /\ last' = IF last.threw
               THEN Response(500, [success |-> FALSE, error |-> "StoreUnavailable"])
               ELSE Response(200, [ success |-> TRUE, data |-> last.result ])
    /\ req' = [pc |-> "idle"]
    /\ UNCHANGED << store, records, now, nextBlob, nextRec, run, scan, faults, inflight, client >>

(***************************************************************************)
(* deleteMultipleFiles: DELETE /api/storage/files { fileIds }.             *)
(* req.log is history: for each id processed, whether it named a document, *)
(* the blobs of that document, the blob deletions that failed and whether  *)
(* deleting the document threw.                                            *)
(***************************************************************************)
\* The index the loop goes on with after an id (found: it named a document).
NextIndex_StopOnNotFound(b, found) ==
    IF found THEN b.idx + 1 ELSE Len(b.fileIds) + 1

NextIndex(b, found) == b.idx + 1

BulkStart ==
    /\ Routed("files")
    /\ IF "fileIds" \notin DOMAIN req.body \/ Len(req.body.fileIds) = 0
       THEN /\ last' = Response(400, [success |-> FALSE])
            /\ req' = [pc |-> "idle"]
       ELSE /\ req' = [ pc |-> "bulk", route |-> req.route, caller |-> req.caller,
                        body |-> req.body, stage |-> req.stage, passed |-> req.passed,
                        fileIds |-> req.body.fileIds,
                        idx |-> 1,
                        deletedFiles |-> << >>,
                        errors |-> << >>,
                        totalFreedSize |-> 0,
                        log |-> << >> ]
            /\ last' = [op |-> "pending"]
    /\ UNCHANGED << store, records, now, nextBlob, nextRec, run, scan, faults, inflight, client >>

\* One iteration: File.findById, deleteFileCompletely, or the catch.
BulkItem(failBlobs, failDoc) ==
    /\ req.pc = "bulk"
    /\ req.idx <= Len(req.fileIds)
    /\ LET fileId == req.fileIds[req.idx]
           found == fileId \in DOMAIN records
       IN  IF ~found
           THEN /\ failBlobs = {}
                /\ ~failDoc
                /\ req' = [req EXCEPT
                      !.idx = NextIndex(req, FALSE),
                      !.errors = Append(@, [fileId |-> fileId, error |-> "File not found"]),
                      !.log = Append(@, [fileId |-> fileId, found |-> FALSE,
                                         threw |-> FALSE, failBlobs |-> {},
                                         blobs |-> {}])]
                /\ UNCHANGED << store, records, faults >>
           ELSE LET file == Doc(records, fileId)
                    d == deleteFileCompletely(file, store, records, failBlobs, failDoc)
                    injected == Cardinality(failBlobs) + (IF failDoc THEN 1 ELSE 0)
                IN  /\ failBlobs \subseteq (AttemptedBlobs(file) \cap DOMAIN store)
                    /\ faults + injected <= MaxFaults
                    /\ faults' = faults + injected
                    /\ store' = d.store
                    /\ records' = d.records
                    /\ req' = IF d.threw
                              THEN [req EXCEPT
                                     !.idx = NextIndex(req, TRUE),
                                     !.errors = Append(@, [fileId |-> fileId,
                                                           error |-> "StoreUnavailable"]),
                                     !.log = Append(@, [fileId |-> fileId, found |-> TRUE,
                                                        threw |-> TRUE,
                                                        failBlobs |-> failBlobs,
                                                        blobs |-> AttemptedBlobs(file)])]
                              ELSE [req EXCEPT
                                     !.idx = NextIndex(req, TRUE),
                                     !.deletedFiles = Append(@, d.result),
                                     !.totalFreedSize = @ + d.result.deletedSize,
                                     !.log = Append(@, [fileId |-> fileId, found |-> TRUE,
                                                        threw |-> FALSE,
                                                        failBlobs |-> failBlobs,
                                                        blobs |-> AttemptedBlobs(file)])]
    /\ last' = [op |-> "pending"]
    /\ UNCHANGED << now, nextBlob, nextRec, run, scan, inflight, client >>

\* After the loop: getStorageStats() and the answer; if the stats cannot be
\* read the outer catch answers 500.
BulkReturn(storeFails) ==
    /\ req.pc = "bulk"
    /\ req.idx > Len(req.fileIds)
    /\ last' = ( IF storeFails
                 THEN Response(500, [success |-> FALSE, error |-> "StoreUnavailable"])
                 ELSE Response(200,
                        [ success |-> TRUE,
                          data |-> [ deletedFiles   |-> req.deletedFiles,
                                     errors         |-> req.errors,
                                     totalFreedSize |-> req.totalFreedSize,
                                     currentStats   |-> getStorageStats(store) ] ]) )
               @@ [fileIds |-> req.fileIds, log |-> req.log]
    /\ req' = [pc |-> "idle"]
    /\ UNCHANGED << store, records, now, nextBlob, nextRec, run, scan, faults, inflight, client >>

\* Lengths of the files uploaded while the surface is exercised
ApiFileSizes == {16384}

NextApi ==
    \/ \E fileSize \in ApiFileSizes, storeFails, createFails \in BOOLEAN :
          Idle /\ Upload(fileSize, storeFails, createFails)
    \/ \E i \in RecIds : Idle /\ WorkerStart(i)
    \/ \E i \in RecIds : Idle /\ WorkerFail(i)
    \/ \E i \in RecIds, fileSize \in OutputSizes, inGridFS \in BOOLEAN :
          Idle /\ WorkerComplete(i, fileSize, inGridFS)
    \/ \E storeFails \in BOOLEAN : Idle /\ GetStats(storeFails)
    \/ \E fileSize \in ApiFileSizes, storeFails \in BOOLEAN :
          Idle /\ CheckAdmission(fileSize, storeFails)
    \/ \E route \in Routes, caller \in Callers :
          \E body \in Bodies(route) : Receive(route, caller, body)
    \/ Authenticate
    \/ AuthorizeAdmin
    \/ \E storeFails \in BOOLEAN : HandleGetStats(storeFails)
    \/ \E storeFails, findFails \in BOOLEAN : HandleGetStorageReport(storeFails, findFails)
    \/ \E findFails \in BOOLEAN : HandleGetCleanupCandidatesList(findFails)
    \/ \E findFails \in BOOLEAN : HandleGetOldestFilesList(findFails)
    \/ \E storeFails \in BOOLEAN : HandleCleanup(storeFails)
    \/ \E phase \in {"phase1", "phase2"}, failBlobs \in SUBSET BlobIds, failDoc \in BOOLEAN :
          CleanupDelete(phase, failBlobs, failDoc)
    \/ CleanupPhase1Done
    \/ CleanupPhase2Done
    \/ \E storeFails \in BOOLEAN : CleanupReturn(storeFails)
    \/ CleanupRespond
    \/ \E storeFails \in BOOLEAN : HandleCleanupOrphaned(storeFails)
    \/ \E findFails \in BOOLEAN : ScanRecords(findFails)
    \/ \E fails \in BOOLEAN : ScanDelete(fails)
    \/ ScanReturn
    \/ CleanupOrphanedRespond
    \/ BulkStart
    \/ \E failBlobs \in SUBSET BlobIds, failDoc \in BOOLEAN : BulkItem(failBlobs, failDoc)
    \/ \E storeFails \in BOOLEAN : BulkReturn(storeFails)

SpecApi == Init /\ [][NextApi]_vars

(***************************************************************************)
(* The reclamation engine on a large collection: one failed record and     *)
(* about PHASE2_LIMIT completed ones, each with an input blob of one       *)
(* block; the younger a completed record, the smaller its id.  The stores  *)
(* do not fail here.                                                       *)
(***************************************************************************)
BatchSizes == { PHASE2_LIMIT - 1, PHASE2_LIMIT, PHASE2_LIMIT + 1 }

InitBatch ==
    /\ \E n \in BatchSizes :
          /\ store = [b \in 1..(n + 1) |-> 1]
          /\ records = [i \in 1..(n + 1) |->
                          [ status              |-> IF i = n + 1 THEN "failed" ELSE "completed",
                            createdAt           |-> n + 2 - i,
                            processingStartedAt |-> n + 2 - i,
                            fileSize            |-> 1,
                            gridfsInputFileId   |-> i,
                            outputFiles         |-> << >> ]]
          /\ now = n + 2
          /\ nextBlob = n + 2
          /\ nextRec = n + 2
    /\ run = [pc |-> "idle"]
    /\ scan = [pc |-> "idle"]
    /\ faults = MaxFaults
    /\ last = [op |-> "none"]
    /\ req = [pc |-> "idle"]
    /\ inflight = << >>
    /\ client = ClientAtLoad(NULL, "/login")

NextBatch ==
    \/ \E targetPercent \in {0}, storeFails \in BOOLEAN :
          Idle /\ last.op # "performAutoCleanup" /\ CleanupStart(targetPercent, storeFails)
    \/ \E phase \in {"phase1", "phase2"} : CleanupDelete(phase, {}, FALSE)
    \/ CleanupPhase1Done
    \/ CleanupPhase2Done
    \/ \E storeFails \in BOOLEAN : CleanupReturn(storeFails)

SpecBatch == InitBatch /\ [][NextBatch]_vars

(***************************************************************************)
(* Concurrent requests.  Every await of a request is a point where another *)
(* request runs, so an upload, a record deletion and an orphan scan        *)
(* interleave step by step.  inflight holds the uploads and the record     *)
(* deletions in progress, one per slot.  An upload is admission check,     *)
(* then the blob is stored, then the File document is created.  The        *)
(* stores answer every call here; a deletion of a blob that is gone is     *)
(* still rejected.                                                         *)
(***************************************************************************)
MaxInflight == 2

Slots == 1..MaxInflight

RaceFileSizes == {16384}

\* checkStorageAvailability(fileSize) at the start of an upload: the answer
\* is computed from the bucket as it is now; an admitted upload goes on.
UploadCheck(u, fileSize, storeFails) ==
    /\ u \notin DOMAIN inflight
    /\ LET adm == checkStorageAvailability(fileSize, store, storeFails)
       IN  /\ inflight' = IF adm.canUpload
                          THEN inflight @@ (u :> [ pc        |-> "store",
                                                   fileSize  |-> fileSize,
                                                   admission |-> adm,
                                                   blob      |-> NULL ])
                          ELSE inflight
           /\ last' = [ op |-> "uploadCheck", u |-> u, fileSize |-> fileSize,
                        storeFails |-> storeFails, result |-> adm ]
    /\ UNCHANGED << store, records, now, nextBlob, nextRec, run, scan, faults, req, client >>

\* The admitted upload stores its blob; nothing is checked again.
UploadStore(u) ==
    /\ u \in DOMAIN inflight
    /\ inflight[u].pc = "store"
    /\ nextBlob <= MaxBlobs
    /\ store' = store @@ (nextBlob :> inflight[u].fileSize)
    /\ nextBlob' = nextBlob + 1
    /\ inflight' = [inflight EXCEPT ![u].pc = "create", ![u].blob = nextBlob]
    /\ last' = [op |-> "uploadStore", u |-> u]
    /\ UNCHANGED << records, now, nextRec, run, scan, faults, req, client >>

\* The upload creates the File document that refers to its blob.
UploadCreate(u, createFails) ==
    /\ u \in DOMAIN inflight
    /\ inflight[u].pc = "create"
    /\ nextRec <= MaxRecords
    /\ IF createFails
       THEN UNCHANGED << records, nextRec >>
       ELSE /\ records' = records @@ (nextRec :>
                   [ status              |-> "uploaded",
                     createdAt           |-> now,
                     processingStartedAt |-> NULL,
                     fileSize            |-> inflight[u].fileSize,
                     gridfsInputFileId   |-> inflight[u].blob,
                     outputFiles         |-> << >> ])
            /\ nextRec' = nextRec + 1
    /\ inflight' = Remove(inflight, u)
    /\ last' = [op |-> "uploadCreate", u |-> u, created |-> ~createFails]
    /\ UNCHANGED << store, now, nextBlob, run, scan, faults, req, client >>

\* deleteFileCompletely(fileId) up to its last await: the document is read
\* and its blobs are deleted.
RecordDeleteBlobs(u, fileId) ==
    /\ u \notin DOMAIN inflight
    /\ fileId \in DOMAIN records
    /\ LET d == deleteFileCompletely(Doc(records, fileId), store, records, {}, FALSE)
       IN  store' = d.store
    /\ inflight' = inflight @@ (u :> [pc |-> "deleteOne", fileId |-> fileId, fileSize |-> 0])
    /\ last' = [op |-> "deleteBlobs", u |-> u]
    /\ UNCHANGED << records, now, nextBlob, nextRec, run, scan, faults, req, client >>

\* File.deleteOne({ _id }) of that call.
RecordDeleteDoc(u) ==
    /\ u \in DOMAIN inflight
    /\ inflight[u].pc = "deleteOne"
    /\ records' = IF inflight[u].fileId \in DOMAIN records
                  THEN Remove(records, inflight[u].fileId)
                  ELSE records
    /\ inflight' = Remove(inflight, u)
    /\ last' = [op |-> "deleteOne", u |-> u]
    /\ UNCHANGED << store, now, nextBlob, nextRec, run, scan, faults, req, client >>

NextRace ==
    \/ \E u \in Slots, fileSize \in RaceFileSizes :
          UploadCheck(u, fileSize, FALSE)
    \/ \E u \in Slots : UploadStore(u)
    \/ \E u \in Slots, createFails \in BOOLEAN : UploadCreate(u, createFails)
    \/ \E u \in Slots, fileId \in RecIds : RecordDeleteBlobs(u, fileId)
    \/ \E u \in Slots : RecordDeleteDoc(u)
    \/ ScanStart(FALSE)
    \/ ScanRecords(FALSE)
    \/ ScanDelete(FALSE)
    \/ ScanReturn

SpecRace == Init /\ [][NextRace]_vars

(***************************************************************************)
(* Uploads one after the other, each checked with its true size, with a    *)
(* bucket that can always be listed; the worker keeps its outputs outside  *)
(* GridFS, so uploads are the only writers of the bucket.  The orphan scan *)
(* removes what failed uploads left.                                       *)
(***************************************************************************)
NextSequential ==
    \/ \E fileSize \in FileSizes, createFails \in BOOLEAN :
          Idle /\ Upload(fileSize, FALSE, createFails)
    \/ \E i \in RecIds : Idle /\ WorkerStart(i)
    \/ \E i \in RecIds : Idle /\ WorkerFail(i)
    \/ \E i \in RecIds, fileSize \in OutputSizes :
          Idle /\ WorkerComplete(i, fileSize, FALSE)
    \/ Idle /\ ScanStart(FALSE)
    \/ ScanRecords(FALSE)
    \/ \E fails \in BOOLEAN : ScanDelete(fails)
    \/ ScanReturn

SpecSequential == Init /\ [][NextSequential]_vars

(***************************************************************************)
(* The reclamation engine running while the conversion worker and a bulk   *)
(* delete request go on: every await of performAutoCleanup and of          *)
(* deleteMultipleFiles is a point where the others take a step.  The       *)
(* stores answer every call here, and the worker keeps its outputs outside *)
(* GridFS.                                                                 *)
(***************************************************************************)
NextConcurrent ==
    \/ \E fileSize \in ApiFileSizes : Idle /\ Upload(fileSize, FALSE, FALSE)
    \/ Idle /\ Tick
    \/ \E i \in RecIds : WorkerStart(i)
    \/ \E i \in RecIds : WorkerFail(i)
    \/ \E i \in RecIds, fileSize \in OutputSizes : WorkerComplete(i, fileSize, FALSE)
    \/ \E body \in Bodies("files") : Receive("files", "admin", body)
    \/ Authenticate
    \/ AuthorizeAdmin
    \/ BulkStart
    \/ BulkItem({}, FALSE)
    \/ BulkReturn(FALSE)
    \/ \E targetPercent \in {0} : scan.pc = "idle" /\ CleanupStart(targetPercent, FALSE)
    \/ \E phase \in {"phase1", "phase2"} : CleanupDelete(phase, {}, FALSE)
    \/ CleanupPhase1Done
    \/ CleanupPhase2Done
    \/ CleanupReturn(FALSE)

SpecConcurrent == Init /\ [][NextConcurrent]_vars

(***************************************************************************)
(* The web client (frontend/src/contexts/AuthContext.jsx and               *)
(* utils/api.js).  client.token is the manuscript_token entry of local     *)
(* storage, client.user the user of the auth context, client.calls the     *)
(* api calls awaiting their response.  A response runs the response        *)
(* interceptor and then the rest of the function that awaited it, in one   *)
(* step.  Assigning window.location.href makes the browser leave the page  *)
(* a moment later; the page then loads anew.                               *)
(***************************************************************************)
Token == 1
User == 1
Pathnames == { "/login", "/" }
Statuses == { 200, 401, 500 }

InitAuthClient ==
    /\ store = << >>
    /\ records = << >>
    /\ now = 1
    /\ nextBlob = 1
    /\ nextRec = 1
    /\ run = [pc |-> "idle"]
    /\ scan = [pc |-> "idle"]
    /\ faults = 0
    /\ last = [op |-> "none"]
    /\ req = [pc |-> "idle"]
    /\ inflight = << >>
    /\ \E token \in {NULL, Token}, pathname \in Pathnames :
          client = ClientAtLoad(token, pathname)

ServerUnchanged ==
    UNCHANGED << store, records, now, nextBlob, nextRec, run, scan, faults, req, inflight >>

\* useEffect(() => { initAuth() }, []): with a token stored, GET /users/me.
initAuth ==
    /\ ~client.mounted
    /\ client' = IF client.token # NULL
                 THEN [client EXCEPT !.mounted = TRUE, !.calls = @ \cup {"initAuth"}]
                 ELSE [client EXCEPT !.mounted = TRUE, !.loading = FALSE]
    /\ last' = [op |-> "initAuth"]
    /\ ServerUnchanged

\* login(credentials): POST /users/login.
login ==
    /\ client.mounted
    /\ "login" \notin client.calls
    /\ client' = [client EXCEPT !.calls = @ \cup {"login"}]
    /\ last' = [op |-> "login"]
    /\ ServerUnchanged

\* logout()
logout ==
    /\ client.mounted
    /\ client' = [client EXCEPT !.token = NULL, !.user = NULL]
    /\ last' = [op |-> "logout"]
    /\ ServerUnchanged

\* api.interceptors.response: on 401 the token is removed and, away from
\* /login, window.location.href is assigned.
ResponseInterceptor(c, status) ==
    IF status = 401
    THEN [c EXCEPT !.token = NULL,
                   !.leaving = @ \/ c.pathname # "/login"]
    ELSE c

\* The rest of initAuth after await api.get('/users/me').
initAuthContinue(c, status) ==
    IF status = 200
    THEN [c EXCEPT !.user = User, !.loading = FALSE]
    ELSE [c EXCEPT !.token = NULL, !.loading = FALSE]

\* The rest of login after await api.post('/users/login').
loginContinue(c, status) ==
    IF status = 200
    THEN [c EXCEPT !.token = Token, !.user = User]
    ELSE c

\* The response to a call arrives.
ApiResponse(call, status) ==
    /\ call \in client.calls
    /\ LET c == ResponseInterceptor([client EXCEPT !.calls = @ \ {call}], status)
       IN  client' = IF call = "initAuth"
                     THEN initAuthContinue(c, status)
                     ELSE loginContinue(c, status)
    /\ last' = [op |-> "apiResponse", call |-> call, status |-> status]
    /\ ServerUnchanged

\* The browser leaves for /login: the page loads anew.
PageLoad ==
    /\ client.leaving
    /\ client' = ClientAtLoad(client.token, "/login")
    /\ last' = [op |-> "pageLoad"]
    /\ ServerUnchanged

\* isAuthenticated()
isAuthenticated(c) == c.user # NULL

NextAuth ==
    \/ initAuth
    \/ login
    \/ logout
    \/ \E call \in {"initAuth", "login"}, status \in Statuses : ApiResponse(call, status)
    \/ PageLoad

SpecAuth == InitAuthClient /\ [][NextAuth]_vars

(***************************************************************************)
(* Admission and usage accounting on their own: the bucket holds one blob  *)
(* whose length puts the usage below, inside and above each threshold and  *)
(* each rounding window of toFixed(2); the requests only read.             *)
(***************************************************************************)
AdmissionLengths ==
    { 16384, 27852, 27853, 29489, 29490, 29492, 31127, 31128, 31130, 32768, 40000 }
AdmissionSizes == { 1, 1638, 1640, 1641, 16384, 16385 }
ProbePercents ==
    { p * MAX_STORAGE + e : p \in { 0, 50, 85, 90, 95, 100, 120 }, e \in { -1, 0, 1 } }

InitAdmission ==
    /\ \E length \in AdmissionLengths :
          /\ store = (1 :> length)
          /\ records = (1 :> [ status              |-> "uploaded",
                               createdAt           |-> 1,
                               processingStartedAt |-> NULL,
                               fileSize            |-> length,
                               gridfsInputFileId   |-> 1,
                               outputFiles         |-> << >> ])
    /\ now = 1
    /\ nextBlob = 2
    /\ nextRec = 2
    /\ run = [pc |-> "idle"]
    /\ scan = [pc |-> "idle"]
    /\ faults = 0
    /\ last = [op |-> "none"]
    /\ req = [pc |-> "idle"]
    /\ inflight = << >>
    /\ client = ClientAtLoad(NULL, "/login")

\* A call of getStorageStatus(usagePercent), usagePercent given times MAX_STORAGE.
GetStatus(usagePercent) ==
    /\ last' = [ op |-> "getStorageStatus", usagePercent |-> usagePercent,
                 result |-> getStorageStatus(usagePercent) ]
    /\ UNCHANGED << store, records, now, nextBlob, nextRec, run, scan, faults, req, inflight, client >>

NextAdmission ==
    \/ \E fileSize \in AdmissionSizes, storeFails \in BOOLEAN :
          CheckAdmission(fileSize, storeFails)
    \/ \E storeFails \in BOOLEAN : GetStats(storeFails)
    \/ \E usagePercent \in ProbePercents : usagePercent >= 0 /\ GetStatus(usagePercent)

SpecAdmission == InitAdmission /\ [][NextAdmission]_vars

(***************************************************************************)
(* Properties of the admission controller and the usage accountant         *)
(* (checked under SpecAdmission)                                           *)
(***************************************************************************)
Checked == last.op = "checkStorageAvailability" /\ ~last.storeFails

\* The usage fraction of the bucket is at least t percent.
UsageAtLeast(t) == TotalSize(store) * 100 >= t * MAX_STORAGE

\* C6: whenever the current usage fraction is >= criticalFraction,
\* checkAdmission denies with the quota-critical reason, whatever the
\* candidate size, also when the projected size exceeds the capacity too.
C6_CriticalDenies ==
    (Checked /\ UsageAtLeast(CRITICAL_THRESHOLD))
        => /\ last.result.canUpload = FALSE
           /\ last.result.reason = "critical"

\* C6 witness: critical usage, a candidate that alone would also breach the
\* capacity, and the denial is the critical one.
C6_Witness ==
    /\ Checked
    /\ UsageAtLeast(CRITICAL_THRESHOLD)
    /\ TotalSize(store) + last.fileSize > MAX_STORAGE
    /\ last.result.reason = "critical"

\* C7 (as claimed): below criticalFraction, checkAdmission denies with the
\* insufficient-capacity reason if and only if totalBytes + candidateBytes
\* is strictly greater than maxBytes.
C7_CapacityDenialIff ==
    (Checked /\ ~UsageAtLeast(CRITICAL_THRESHOLD))
        => ( (~last.result.canUpload /\ last.result.reason = "exceeds")
             <=> TotalSize(store) + last.fileSize > MAX_STORAGE )

\* C8 (as claimed): when checkAdmission allows, shouldCleanup is true exactly
\* when the current usage fraction is >= cleanupFraction.
C8_CleanupHintIff ==
    (Checked /\ last.result.canUpload)
        => (last.result.shouldCleanup <=> UsageAtLeast(CLEANUP_THRESHOLD))

\* C9: if computing usage fails inside checkAdmission, it returns
\* allow = true, shouldCleanup = false and the error, for every size.
C9_FailOpen ==
    (last.op = "checkStorageAvailability" /\ last.storeFails)
        => /\ last.result.canUpload = TRUE
           /\ last.result.shouldCleanup = FALSE
           /\ "error" \in DOMAIN last.result

\* C9 witness: the bucket is over its capacity, usage cannot be computed,
\* and the upload is allowed.
C9_Witness ==
    /\ last.op = "checkStorageAvailability"
    /\ last.storeFails
    /\ TotalSize(store) > MAX_STORAGE
    /\ last.result.canUpload

\* C10: every usage percentage gets exactly one status, by descending
\* thresholds, each boundary belonging to the higher status.
Classified(usagePercent, status) ==
    /\ status \in {"critical", "high", "warning", "normal"}
    /\ status = "critical" <=> usagePercent >= 95 * MAX_STORAGE
    /\ status = "high" <=> /\ usagePercent >= 90 * MAX_STORAGE
                           /\ usagePercent < 95 * MAX_STORAGE
    /\ status = "warning" <=> /\ usagePercent >= 85 * MAX_STORAGE
                              /\ usagePercent < 90 * MAX_STORAGE
    /\ status = "normal" <=> usagePercent < 85 * MAX_STORAGE

Phases == {"phase1", "phase2"}

\* This step is the cleanup run deleting record i.
RunDeletes(i) ==
    /\ run.pc \in Phases
    /\ i \in DOMAIN records
    /\ i \notin DOMAIN records'

\* The run has called deleteFileCompletely for record id in phase ph.
Attempted(r, id, ph) ==
    \E k \in 1..Len(r.attempts) : r.attempts[k].fileId = id /\ r.attempts[k].phase = ph

\* The run has called deleteFileCompletely for record id and the call threw.
AttemptFailed(r, id) ==
    \E k \in 1..Len(r.attempts) : r.attempts[k].fileId = id /\ r.attempts[k].threw

\* C1 (as claimed): during a run of performAutoCleanup no completed record
\* is deleted while a Phase-1 candidate (failed, stale uploaded, stuck
\* processing) still exists and the target is not met, also when the
\* deletion of that candidate failed.
C1_NoCompletedWhileGarbage ==
    [][ \A i \in RecIds :
          (RunDeletes(i) /\ records[i].status = "completed" /\ ~TargetMet(run))
             => ~(\E j \in DOMAIN records' : IsCleanupCandidate(records'[j], now)) ]_vars

\* C1 (amended): a completed record is deleted only in Phase 2, with the
\* target unmet, after every record of the Phase-1 candidate list has been
\* attempted; the Phase-1 candidates still present are those whose deletion
\* was attempted and failed.
C1_Phase2AfterPhase1 ==
    [][ \A i \in RecIds :
          (RunDeletes(i) /\ records[i].status = "completed")
             => /\ run.pc = "phase2"
                /\ ~TargetMet(run)
                /\ \A k \in 1..Len(run.candidates) :
                      Attempted(run, run.candidates[k].id, "phase1")
                /\ \A j \in DOMAIN records :
                      IsCleanupCandidate(records[j], now) => AttemptFailed(run, j) ]_vars

\* C1 witness: Phase 2 has deleted a completed record while a Phase-1
\* candidate whose deletion failed is still in the collection.
C1_Witness ==
    /\ run.pc = "phase2"
    /\ \E k \in 1..Len(run.attempts) :
          run.attempts[k].phase = "phase2" /\ ~run.attempts[k].threw
    /\ \E j \in DOMAIN records :
          IsCleanupCandidate(records[j], now) /\ AttemptFailed(run, j)

\* C2 (as claimed): if the usage at the start is at or below the target,
\* performAutoCleanup changes neither store and returns freedBytes = 0 with
\* an empty deleted list.
C2_NoOpBelowTarget ==
    [][ ( /\ last'.op = "performAutoCleanup"
          /\ ~last'.threw
          /\ TotalSize(store) * 100 <= MAX_STORAGE * last'.targetPercent
          /\ run.pc = "idle" )
           => /\ store' = store
              /\ records' = records
              /\ last'.result.deletedFiles = << >>
              /\ "freedSize" \in DOMAIN last'.result
              /\ last'.result.freedSize = 0 ]_vars

\* This step is a call deleteFileCompletely(file) of the run that returns.
DeleteReturns ==
    /\ run.pc \in Phases
    /\ run'.pc = run.pc
    /\ Len(run'.attempts) = Len(run.attempts) + 1
    /\ ~run'.attempts[Len(run'.attempts)].threw

ScanDone == last.op = "cleanupOrphaned" /\ ~last.threw

HeldByRecords == UNION { ReferencedBlobs(records[i]) : i \in DOMAIN records }

Unreferenced(before) == DOMAIN before \ HeldByRecords

\* C5 (as claimed): the orphan scan deletes exactly the unreferenced blobs:
\* the bucket then holds exactly the referenced blobs it held, deletedCount
\* is the number of unreferenced blobs and freedSize the sum of their lengths.
C5_DeletesExactlyOrphans ==
    ScanDone
        => /\ DOMAIN store = DOMAIN last.before \cap HeldByRecords
           /\ last.result.deletedCount = Cardinality(Unreferenced(last.before))
           /\ last.result.freedSize = SumOver(last.before, Unreferenced(last.before))

\* C5 (amended): the orphan scan deletes exactly the unreferenced blobs whose
\* deletion does not fail: every referenced blob stays, nothing is added,
\* deletedCount and freedSize are the number and the total length of the
\* blobs removed, and deletedCount plus the failed deletions is the number
\* of unreferenced blobs.
C5_DeletesOrphansUnlessFailed ==
    ScanDone
        => LET removed == DOMAIN last.before \ DOMAIN store
           IN  /\ DOMAIN last.before \cap HeldByRecords \subseteq DOMAIN store
               /\ DOMAIN store \subseteq DOMAIN last.before
               /\ removed \subseteq Unreferenced(last.before)
               /\ last.result.deletedCount = Cardinality(removed)
               /\ last.result.freedSize = SumOver(last.before, removed)
               /\ last.result.deletedCount + last.failed
                     = Cardinality(Unreferenced(last.before))

\* C5 witness: three blobs, one of them referenced: the two others are
\* deleted and the referenced one is kept.
C5_Witness ==
    /\ ScanDone
    /\ Cardinality(DOMAIN last.before) = 3
    /\ Cardinality(DOMAIN last.before \cap HeldByRecords) = 1
    /\ last.failed = 0
    /\ last.result.deletedCount = 2
    /\ Cardinality(DOMAIN store) = 1

(***************************************************************************)
(* Properties of the usage accountant under the engine's operations        *)
(* (checked under Spec)                                                    *)
(***************************************************************************)
\* C11: after any sequence of uploads, deletions, cleanup runs and orphan
\* scans, the totalSize getStorageStats returns is the sum of the lengths of
\* the blobs in the bucket at the moment of the call and fileCount is their
\* number; the finalStats of a cleanup run reflect the run's deletions.
C11_UsageIsCurrent ==
    /\ (last.op = "getStorageStats" /\ ~last.threw)
          => /\ last.result.totalSize = SumOver(store, DOMAIN store)
             /\ last.result.fileCount = Cardinality(DOMAIN store)
    /\ (last.op = "performAutoCleanup" /\ ~last.threw)
          => /\ last.result.finalStats.totalSize = SumOver(store, DOMAIN store)
             /\ last.result.finalStats.fileCount = Cardinality(DOMAIN store)

\* C11 witness: a read after blobs were deleted, while an orphan that no
\* File document accounts for is still in the bucket.
C11_Witness ==
    /\ last.op = "getStorageStats"
    /\ ~last.threw
    /\ Cardinality(DOMAIN store) < nextBlob - 1
    /\ DOMAIN store \ HeldByRecords # {}
    /\ last.result.fileCount = Cardinality(DOMAIN store)
    /\ last.result.totalSize > 0

(***************************************************************************)
(* Further properties of the reclamation engine (checked under Spec)       *)
(***************************************************************************)
\* This step is a call of deleteFileCompletely made by the run.
DeleteCalled ==
    /\ run.pc \in Phases
    /\ run'.pc = run.pc
    /\ Len(run'.attempts) = Len(run.attempts) + 1

\* C14: deleteFileCompletely is safe to retry: applied (with the stores
\* working) to a record whose blobs are already gone from the bucket, it
\* does not throw, removes the record, leaves the bucket alone and counts
\* zero freed bytes; in general it counts only the blobs it removed.
C14_RetrySafe ==
    [][ (DeleteCalled /\ faults' = faults)
           => LET file == run.list[run.idx]
                  call == run'.attempts[Len(run'.attempts)]
              IN  /\ ~call.threw
                  /\ file.id \notin DOMAIN records'
                  /\ (run'.freedSize - run.freedSize)
                        = SumOver(store, DOMAIN store) - SumOver(store', DOMAIN store')
                  /\ (AttemptedBlobs(file) \cap DOMAIN store = {})
                        => /\ store' = store
                           /\ run'.freedSize = run.freedSize
                           /\ run'.deletedFiles[Len(run'.deletedFiles)].deletedSize = 0 ]_vars

\* C14 witness: a record whose input blob was already gone has been deleted
\* with no failure in the call and zero bytes counted.
C14_Witness ==
    /\ run.pc \in Phases
    /\ run.attempts # << >>
    /\ run.deletedFiles # << >>
    /\ LET call == run.attempts[Len(run.attempts)]
           result == run.deletedFiles[Len(run.deletedFiles)]
       IN  /\ ~call.threw
           /\ call.failBlobs = {}
           /\ result.fileId = call.fileId
           /\ result.deletedSize = 0
           /\ result.deletedFiles = << >>
           /\ result.fileId \notin DOMAIN records

RunDone == last.op = "performAutoCleanup" /\ ~last.threw

OrphansBefore(l) == DOMAIN l.before.store \ ReferencedIds(l.before.records)

\* C16 (as claimed): automatic cleanup reclaims the orphaned blobs in its
\* Phase 1, before any completed record is deleted in Phase 2: a run that
\* deleted a record in Phase 2 has left no blob that was an orphan when it
\* began.
C16_OrphansReclaimedInPhase1 ==
    ( /\ RunDone
      /\ "attempts" \in DOMAIN last
      /\ \E k \in 1..Len(last.attempts) :
            last.attempts[k].phase = "phase2" /\ ~last.attempts[k].threw )
        => OrphansBefore(last) \cap DOMAIN store = {}

\* The records of the collection a run began with that are Phase-1
\* candidates, and those that are completed.
CandidatesBefore(l) ==
    { i \in DOMAIN l.before.records : IsCleanupCandidate(l.before.records[i], now) }

CompletedBefore(l) ==
    { i \in DOMAIN l.before.records : l.before.records[i].status = "completed" }

AttemptedIn(l, ph) ==
    { l.attempts[k].fileId : k \in { j \in 1..Len(l.attempts) : l.attempts[j].phase = ph } }

\* C19: on return from performAutoCleanup either the final usage is at or
\* below the target, or every Phase-1 candidate and every one of the (at
\* most 100) oldest completed records has been attempted for deletion.
C19_TargetMetOrExhausted ==
    (RunDone /\ "attempts" \in DOMAIN last)
        => \/ SumOver(store, DOMAIN store) * 100 <= MAX_STORAGE * last.targetPercent
           \/ /\ CandidatesBefore(last) \subseteq AttemptedIn(last, "phase1")
              /\ last.queried
              /\ Cardinality(CompletedBefore(last)) <= PHASE2_LIMIT
                    => CompletedBefore(last) \subseteq AttemptedIn(last, "phase2")
              /\ Cardinality(AttemptedIn(last, "phase2"))
                    >= (IF Cardinality(CompletedBefore(last)) <= PHASE2_LIMIT
                        THEN Cardinality(CompletedBefore(last)) ELSE PHASE2_LIMIT)

\* C19 witness: a run that attempted a Phase-1 candidate and a completed
\* record and still ended above its target.
C19_Witness ==
    /\ RunDone
    /\ "attempts" \in DOMAIN last
    /\ SumOver(store, DOMAIN store) * 100 > MAX_STORAGE * last.targetPercent
    /\ CandidatesBefore(last) # {}
    /\ CompletedBefore(last) # {}
    /\ CandidatesBefore(last) \subseteq AttemptedIn(last, "phase1")
    /\ CompletedBefore(last) \subseteq AttemptedIn(last, "phase2")

\* The bytes-to-free amount of a returned run, times 100.
BytesToFree(l) == l.result.initialStats.totalSize * 100 - MAX_STORAGE * l.targetPercent

RECURSIVE FreedBy(_, _)
FreedBy(deletedFiles, n) ==
    IF n <= 0 THEN 0 ELSE deletedFiles[n].deletedSize + FreedBy(deletedFiles, n - 1)

\* C20: performAutoCleanup stops deleting as soon as the accumulated freed
\* bytes meet or exceed the bytes-to-free amount: every call of
\* deleteFileCompletely, in either phase, is made with less than that
\* amount freed, so the freed bytes of all deleted records but the last sum
\* to strictly less than it.
C20_StopsWhenTargetMet ==
    (RunDone /\ "attempts" \in DOMAIN last)
        => /\ \A k \in 1..Len(last.attempts) :
                 last.attempts[k].freedSize * 100 < BytesToFree(last)
           /\ last.result.deletedFiles # << >>
                 => FreedBy(last.result.deletedFiles,
                            Len(last.result.deletedFiles) - 1) * 100 < BytesToFree(last)
           /\ last.result.freedSize
                 = FreedBy(last.result.deletedFiles, Len(last.result.deletedFiles))

\* C20 witness: the run freed exactly the bytes-to-free amount with its
\* first deletion and left the other record of the collection alone.
C20_Witness ==
    /\ RunDone
    /\ "attempts" \in DOMAIN last
    /\ Len(last.attempts) = 1
    /\ Len(last.result.deletedFiles) = 1
    /\ last.result.freedSize * 100 = BytesToFree(last)
    /\ Cardinality(CandidatesBefore(last) \cup CompletedBefore(last)) = 2
    /\ Cardinality(DOMAIN records) = 1

(***************************************************************************)
(* Properties of the administration surface (checked under SpecApi)        *)
(***************************************************************************)
\* The answer of a bulk delete whose loop ran.
BulkAnswered == last.op = "response" /\ last.route = "files" /\ "log" \in DOMAIN last

BulkDone == BulkAnswered /\ last.status = 200

Succeeded(l) == { k \in 1..Len(l.log) : l.log[k].found /\ ~l.log[k].threw }

Listed(list, fileId) == \E j \in 1..Len(list) : list[j].fileId = fileId

NotFoundListed(list, fileId) ==
    \E j \in 1..Len(list) : list[j] = [fileId |-> fileId, error |-> "File not found"]

C13_OverallStatusReflectsSuccess ==
    BulkAnswered => (last.body.success <=> Succeeded(last) # {})

\* C17: a handler of the surface runs (answers, starts a cleanup or a scan,
\* changes a store) only for a request that has passed authenticate and
\* then authorizeAdmin; a request refused by either is answered 401 or 403
\* and changes nothing.
C17_HandlersBehindBothChecks ==
    [][ /\ ( /\ req.pc # "idle"
             /\ \/ store' # store
                \/ records' # records
                \/ run' # run
                \/ scan' # scan
                \/ last'.op = "response" /\ last'.status \notin {401, 403} )
           => /\ req.caller = "admin"
              /\ req.passed = << "authenticate", "authorizeAdmin" >>
        /\ (last'.op = "response" /\ last'.status \in {401, 403})
           => /\ req.caller # "admin"
              /\ last'.status = 401 <=> req.caller = "none"
              /\ store' = store
              /\ records' = records
              /\ run' = run
              /\ scan' = scan ]_vars

\* C17 witness: an administrator's bulk delete, past both checks, has
\* deleted a record.
C17_Witness ==
    /\ req.pc = "bulk"
    /\ req.caller = "admin"
    /\ req.passed = << "authenticate", "authorizeAdmin" >>
    /\ req.deletedFiles # << >>

\* C18: when the usage cannot be computed on a read path (GET stats, GET
\* report), the endpoint answers with a failure and no usage snapshot.
C18_ReadFailurePropagates ==
    ( /\ last.op = "response"
      /\ last.route \in {"stats", "report"}
      /\ "storeFails" \in DOMAIN last
      /\ last.storeFails )
        => /\ last.status = 500
           /\ ~last.body.success
           /\ "data" \notin DOMAIN last.body

\* C18 witness: GET stats on a bucket that holds blobs but cannot be listed
\* is answered 500.
C18_Witness ==
    /\ last.op = "response"
    /\ last.route = "stats"
    /\ "storeFails" \in DOMAIN last
    /\ last.storeFails
    /\ DOMAIN store # {}
    /\ last.status = 500

(***************************************************************************)
(* Candidate selection and failures of the reclamation engine              *)
(* (checked under Spec)                                                    *)
(***************************************************************************)
\* The run is in progress, its Phase-1 list fetched.
Running == run.pc \in {"phase1", "phase2", "final"}

\* The calls of deleteFileCompletely the run made in phase ph, in order.
CallsIn(r, ph) == SelectSeq(r.attempts, LAMBDA a : a.phase = ph)

\* C21: the Phase-1 candidate list is exactly the records that are failed,
\* or uploaded with createdAt more than 30 days old, or processing with
\* processingStartedAt more than 30 days old; it is in ascending createdAt
\* order and it is processed in that order.
C21_CandidatesExactOldestFirst ==
    Running
        => LET recs == run.before.records
               ids == { run.candidates[k].id : k \in 1..Len(run.candidates) }
               calls == CallsIn(run, "phase1")
           IN  /\ ids = { i \in DOMAIN recs :
                            \/ recs[i].status = "failed"
                            \/ recs[i].status = "uploaded" /\ now - recs[i].createdAt > 30
                            \/ /\ recs[i].status = "processing"
                               /\ recs[i].processingStartedAt # NULL
                               /\ now - recs[i].processingStartedAt > 30 }
               /\ Len(run.candidates) = Cardinality(ids)
               /\ \A a, b \in 1..Len(run.candidates) :
                     a < b => recs[run.candidates[a].id].createdAt
                                 <= recs[run.candidates[b].id].createdAt
               /\ Len(calls) <= Len(run.candidates)
               /\ \A k \in 1..Len(calls) : calls[k].fileId = run.candidates[k].id

\* C21 witness: two candidates of different age, one of them a stale upload
\* that never failed, both attempted.
C21_Witness ==
    /\ Running
    /\ Len(run.candidates) = 2
    /\ run.candidates[1].createdAt < run.candidates[2].createdAt
    /\ run.candidates[1].status = "uploaded"
    /\ Len(CallsIn(run, "phase1")) = 2

\* The run that returned had a call of deleteFileCompletely throw.
RunHadFailure ==
    /\ RunDone
    /\ "attempts" \in DOMAIN last
    /\ \E k \in 1..Len(last.attempts) : last.attempts[k].threw

\* C23: a deleteFileCompletely that throws does not abort the run: the
\* loop goes on with the next record, nothing is counted or listed for the
\* failed one, Phase 2 still runs if the target is unmet, and the run
\* returns its result.
C23_FailureDoesNotAbort ==
    [][ /\ (DeleteCalled /\ run'.attempts[Len(run'.attempts)].threw)
           => /\ run'.idx = run.idx + 1
              /\ run'.list = run.list
              /\ run'.freedSize = run.freedSize
              /\ run'.deletedFiles = run.deletedFiles
        /\ (last'.op = "performAutoCleanup" /\ ~last'.threw /\ "attempts" \in DOMAIN last'
              /\ \E k \in 1..Len(last'.attempts) : last'.attempts[k].threw)
           => /\ \A k \in 1..Len(last'.attempts) :
                    last'.attempts[k].threw
                       => ~Listed(last'.result.deletedFiles, last'.attempts[k].fileId)
              /\ last'.result.freedSize
                    = FreedBy(last'.result.deletedFiles, Len(last'.result.deletedFiles))
              /\ \/ last'.result.freedSize * 100
                       >= last'.result.initialStats.totalSize * 100
                            - MAX_STORAGE * last'.targetPercent
                 \/ /\ { run.candidates[k].id : k \in 1..Len(run.candidates) }
                          \subseteq AttemptedIn(last', "phase1")
                    /\ last'.queried
                    /\ { run.oldFiles[k].id : k \in 1..Len(run.oldFiles) }
                          \subseteq AttemptedIn(last', "phase2") ]_vars

\* C23 witness: the first candidate could not be deleted, a later one was,
\* and the run returned.
C23_Witness ==
    /\ RunHadFailure
    /\ Len(last.attempts) >= 2
    /\ last.attempts[1].threw
    /\ last.result.deletedFiles # << >>
    /\ last.attempts[1].fileId \in DOMAIN records

\* C24 (as claimed): the result of performAutoCleanup has a per-record
\* error entry for every record whose deletion failed during the run.
C24_ErrorsReported ==
    RunHadFailure
        => /\ "errors" \in DOMAIN last.result
           /\ \A k \in 1..Len(last.attempts) :
                 last.attempts[k].threw
                    => Listed(last.result.errors, last.attempts[k].fileId)

\* C25: in deleteFileCompletely a blob deletion that fails is skipped: the
\* other blobs of the record are still deleted, the record is deleted, and
\* the failed blob is neither counted in deletedSize nor listed.
C25_FailedBlobSkipped ==
    [][ ( /\ DeleteCalled
          /\ ~run'.attempts[Len(run'.attempts)].threw
          /\ run'.attempts[Len(run'.attempts)].failBlobs # {} )
           => LET file == run.list[run.idx]
                  failBlobs == run'.attempts[Len(run'.attempts)].failBlobs
                  result == run'.deletedFiles[Len(run'.deletedFiles)]
                  removed == DOMAIN store \ DOMAIN store'
              IN  /\ file.id \notin DOMAIN records'
                  /\ failBlobs \subseteq DOMAIN store'
                  /\ removed = (AttemptedBlobs(file) \cap DOMAIN store) \ failBlobs
                  /\ result.deletedSize = SumOver(store, removed)
                  /\ Len(result.deletedFiles) = Cardinality(removed)
                  /\ (file.gridfsInputFileId \in failBlobs)
                        => \A k \in 1..Len(result.deletedFiles) :
                              result.deletedFiles[k].type = "output" ]_vars

\* C25 witness: the input blob could not be deleted; the output blob and the
\* record were, and only the output is counted.
C25_Witness ==
    /\ run.pc \in Phases
    /\ run.attempts # << >>
    /\ run.deletedFiles # << >>
    /\ LET call == run.attempts[Len(run.attempts)]
           result == run.deletedFiles[Len(run.deletedFiles)]
       IN  /\ ~call.threw
           /\ call.failBlobs # {}
           /\ call.failBlobs \subseteq DOMAIN store
           /\ result.fileId = call.fileId
           /\ Len(result.deletedFiles) = 1
           /\ result.deletedFiles[1].type = "output"
           /\ result.deletedSize > 0
           /\ result.fileId \notin DOMAIN records

(***************************************************************************)
(* Frame properties of the core operations (checked under SpecApi)         *)
(***************************************************************************)
\* C26: no core operation changes the status of a record: every step but
\* the conversion worker's leaves the status of each record that exists
\* before and after it unchanged, and a completed or failed record leaves
\* that status only by being deleted.
C26_StatusNeverMutated ==
    [][ \A i \in DOMAIN records \cap DOMAIN records' :
          /\ last'.op # "worker" => records'[i].status = records[i].status
          /\ records[i].status \in {"completed", "failed"}
                => records'[i].status = records[i].status ]_vars

\* C26 witness: a cleanup asked for through the surface deleted a record
\* and a completed record is still there.
C26_Witness ==
    /\ last.op = "response"
    /\ last.route = "cleanup"
    /\ last.status = 200
    /\ last.body.data.deletedFiles # << >>
    /\ \E i \in DOMAIN records : records[i].status = "completed"

ReadRoutes == { "stats", "report", "cleanup-candidates", "oldest-files" }

\* C27: the read-only operations (getStorageStats, checkStorageAvailability,
\* GET stats, GET report, GET cleanup-candidates, GET oldest-files) leave
\* the bucket and the File collection unchanged.
C27_ReadsChangeNothing ==
    [][ ( \/ last'.op \in {"getStorageStats", "checkStorageAvailability"}
          \/ last'.op = "response" /\ last'.route \in ReadRoutes
          \/ req.pc # "idle" /\ req.route \in ReadRoutes )
           => /\ store' = store
              /\ records' = records
              /\ nextBlob' = nextBlob
              /\ nextRec' = nextRec ]_vars

\* C27 witness: GET cleanup-candidates answered with a candidate, which is
\* still in the collection with its blob.
C27_Witness ==
    /\ last.op = "response"
    /\ last.route = "cleanup-candidates"
    /\ last.status = 200
    /\ last.body.count > 0
    /\ \A k \in 1..Len(last.body.data) :
          /\ last.body.data[k].id \in DOMAIN records
          /\ records[last.body.data[k].id].gridfsInputFileId \in DOMAIN store

(***************************************************************************)
(* The Phase-2 batch (checked under SpecBatch)                             *)
(***************************************************************************)
\* The completed records of the collection a run began with that are older
\* than record a.
OlderCompleted(l, a) ==
    { j \in CompletedBefore(l) :
        l.before.records[j].createdAt < l.before.records[a].createdAt }

\* C22: in Phase 2 one call of performAutoCleanup considers only the 100
\* oldest completed records: it attempts at most 100 of them and never one
\* that has 100 older completed records, even if the target is still unmet.
C22_Phase2AtMostHundredOldest ==
    (RunDone /\ "attempts" \in DOMAIN last)
        => /\ Len(CallsIn(last, "phase2")) <= 100
           /\ \A a \in AttemptedIn(last, "phase2") :
                 /\ a \in CompletedBefore(last)
                 /\ Cardinality(OlderCompleted(last, a)) < 100
           /\ Cardinality(CompletedBefore(last) \ DOMAIN records) <= 100

\* C22 witness: 101 completed records and a target that is not met: the run
\* has deleted the 100 oldest and left the youngest.
C22_Witness ==
    /\ RunDone
    /\ "attempts" \in DOMAIN last
    /\ Cardinality(CompletedBefore(last)) = 101
    /\ Cardinality(AttemptedIn(last, "phase2")) = 100
    /\ DOMAIN records = {1}
    /\ SumOver(store, DOMAIN store) * 100 > MAX_STORAGE * last.targetPercent

(***************************************************************************)
(* Concurrent uploads, record deletions and orphan scans (checked under    *)
(* SpecRace)                                                               *)
(***************************************************************************)
\* This step is an admission check of an upload.
UploadChecked == last'.op = "uploadCheck"

\* The uploads that have stored their blob and not yet created their record.
Stored == { u \in DOMAIN inflight : inflight[u].pc = "create" }

\* C28: admission holds no reservation: a check writes nothing the next
\* check reads, and its answer is computed from the bytes the bucket holds
\* at that moment alone, whatever uploads were admitted and are not stored
\* yet; so two uploads checked before either stores are both allowed when
\* each fits alone.
C28_AdmissionHoldsNoReservation ==
    [][ UploadChecked =>
          LET totalSize == SumOver(store, DOMAIN store)
              fileSize  == last'.fileSize
          IN  /\ store' = store
              /\ records' = records
              /\ last'.result.stats.totalSize = totalSize
              /\ last'.result.canUpload
                    = (/\ totalSize * 100 < CRITICAL_THRESHOLD * MAX_STORAGE
                       /\ totalSize + fileSize <= MAX_STORAGE) ]_vars

\* C28 witness: two uploads were admitted on the same reading of the bucket,
\* only one of them fitted, both have stored their blob, and the bucket
\* holds more than MAX_STORAGE.
C28_Witness ==
    /\ \E u, v \in Stored :
          /\ u # v
          /\ inflight[u].admission.stats.totalSize = inflight[v].admission.stats.totalSize
          /\ inflight[u].admission.stats.totalSize + inflight[u].fileSize <= MAX_STORAGE
          /\ inflight[u].admission.stats.totalSize + inflight[u].fileSize
                + inflight[v].fileSize > MAX_STORAGE
    /\ SumOver(store, DOMAIN store) > MAX_STORAGE

\* This step is the orphan scan deleting a blob.
ScanDeleted ==
    /\ scan.pc = "delete"
    /\ scan'.pc = "delete"
    /\ scan'.deletedCount = scan.deletedCount + 1

\* The blobs the scan has deleted so far.
DeletedByScan ==
    IF scan.pc = "delete"
    THEN { scan.orphanedFiles[k].id : k \in
             { j \in 1..(scan.idx - 1) : scan.orphanedFiles[j].id \notin DOMAIN store } }
    ELSE {}

\* C29 as stated: the scan takes the record-reference snapshot first and
\* enumerates the blobs afterwards, so whenever it holds a blob list it
\* holds the record snapshot too.
C29_RecordSnapshotPrecedesBlobList ==
    scan.pc # "idle" => "seen" \in DOMAIN scan

\* C29 as the code has it: the scan lists the bucket first and reads the
\* records afterwards, working on the list it took; every blob it deletes
\* was in the bucket at the listing, so a blob stored after the listing
\* (and so after the record read) is not deleted by this scan, while one
\* stored before the listing whose record is created after the record read
\* is.
C29_BlobListPrecedesRecordRead ==
    [][ /\ (scan.pc = "records" /\ scan'.pc = "delete")
            => /\ scan'.before = scan.gridfsFiles
               /\ scan'.seen = records
        /\ ScanDeleted
            => /\ (DOMAIN store \ DOMAIN store') \subseteq DOMAIN scan.before
               /\ (DOMAIN store \ DOMAIN scan.before) \subseteq DOMAIN store' ]_vars

\* C29 witness: an upload has stored its blob and has not created its record
\* yet; the scan listed the blob, read the records without a reference to
\* it, and deleted it.
C29_Witness ==
    \E u \in Stored :
        /\ inflight[u].blob \in DeletedByScan
        /\ inflight[u].blob \in DOMAIN scan.before
        /\ inflight[u].blob \notin UNION { ReferencedBlobs(scan.seen[i]) : i \in DOMAIN scan.seen }

\* C30: the orphan scan never deletes a blob that a record present when the
\* scan read the records refers to, however uploads and record deletions
\* interleave with it.
C30_ScanSparesReferencedBlobs ==
    [][ ScanDeleted =>
          \A b \in DOMAIN store \ DOMAIN store' :
              \A i \in DOMAIN scan.seen : b \notin ReferencedBlobs(scan.seen[i]) ]_vars

\* C30 witness: the scan has deleted a blob; a record it read refers to a
\* blob it listed, which is still stored; the records have changed since
\* the scan read them.
C30_Witness ==
    /\ DeletedByScan # {}
    /\ records # scan.seen
    /\ \E i \in DOMAIN scan.seen :
          ReferencedBlobs(scan.seen[i]) \cap DOMAIN scan.before \cap DOMAIN store # {}

(***************************************************************************)
(* The admission decision against the status of its snapshot (checked      *)
(* under SpecAdmission)                                                    *)
(***************************************************************************)
\* C32 (as claimed): checkAdmission denies with the quota-critical reason
\* exactly when the status of the snapshot it returns is critical, and sets
\* shouldCleanup only when that status is high.
C32_DecisionAgreesWithStatus ==
    Checked
        => /\ (~last.result.canUpload /\ last.result.reason = "critical")
                <=> last.result.stats.status = "critical"
           /\ (last.result.canUpload /\ last.result.shouldCleanup)
                => last.result.stats.status = "high"

(***************************************************************************)
(* The quota under sequential, checked uploads (checked under              *)
(* SpecSequential)                                                         *)
(***************************************************************************)
\* C31: when uploads run one after the other, every stored blob was allowed
\* by checkAdmission with its true size and the usage can always be
\* computed, the bytes in the bucket never exceed MAX_STORAGE.
C31_QuotaNeverExceeded ==
    SumOver(store, DOMAIN store) <= MAX_STORAGE

\* C31 witness: the usage is below critical, an upload that would take the
\* bucket over MAX_STORAGE has just been refused for capacity, and nothing
\* was stored.
C31_Witness ==
    /\ last.op = "upload"
    /\ ~last.stored
    /\ last.admission.reason = "exceeds"
    /\ SumOver(store, DOMAIN store) * 100 < CRITICAL_THRESHOLD * MAX_STORAGE
    /\ \E fileSize \in FileSizes : SumOver(store, DOMAIN store) + fileSize > MAX_STORAGE

(***************************************************************************)
(* The reclamation engine beside the worker and a bulk delete (checked     *)
(* under SpecConcurrent)                                                   *)
(***************************************************************************)
\* Work in flight: uploaded and created within the last 30 days, or
\* processing and started within the last 30 days (or with no start date).
InFlight(file, today) ==
    \/ file.status = "uploaded" /\ file.createdAt >= today - STALE_DAYS
    \/ /\ file.status = "processing"
       /\ \/ file.processingStartedAt = NULL
          \/ file.processingStartedAt >= today - STALE_DAYS

\* This step is performAutoCleanup finishing a call of deleteFileCompletely.
RunDeleted == run.pc \in {"phase1", "phase2"} /\ run'.pc = run.pc /\ run'.idx = run.idx + 1

\* C33 (as claimed): reclaimTo never deletes a record that is in flight at
\* the time it is deleted, also when the worker changes statuses while the
\* run goes on.
C33_NeverDeletesInFlight ==
    [][ RunDeleted =>
          \A i \in DOMAIN records \ DOMAIN records' : ~InFlight(records[i], now) ]_vars

\* The ids of the records a list of deletion results reports.
ReportedIn(deletedFiles) == { deletedFiles[k].fileId : k \in 1..Len(deletedFiles) }

\* The bytes a list of deletion results counts as freed for record i.
RECURSIVE CreditedFor(_, _)
CreditedFor(deletedFiles, i) ==
    IF deletedFiles = << >> THEN 0
    ELSE (IF Head(deletedFiles).fileId = i THEN Head(deletedFiles).deletedSize ELSE 0)
         + CreditedFor(Tail(deletedFiles), i)

\* C35 (as claimed): while a reclamation run and a bulk delete both go on,
\* no record is in the deleted list of both, and for every record the run
\* started with, the bytes the two count as freed for it are at most the
\* bytes of its blobs that the bucket held.
C35_DeletedByAtMostOne ==
    (run.pc \in {"phase1", "phase2", "final"} /\ req.pc = "bulk")
        => /\ ReportedIn(run.deletedFiles) \cap ReportedIn(req.deletedFiles) = {}
           /\ \A i \in DOMAIN run.before.records :
                 CreditedFor(run.deletedFiles, i) + CreditedFor(req.deletedFiles, i)
                    <= SumOver(run.before.store,
                               ReferencedBlobs(run.before.records[i])
                                  \cap DOMAIN run.before.store)

C36_AuthenticatedImpliesToken ==
    isAuthenticated(client) => client.token # NULL

=============================================================================
